---- MODULE Spec2Model ----
(***************************************************************************)
(* The x402-Solana facilitator: FacilitatorService.verifyPayment and       *)
(* settlePayment routing requests to the solana-transfer and solana-spl    *)
(* scheme engines, which talk to a Solana JSON-RPC node.  Requests run     *)
(* concurrently on one event loop: every awaited RPC call is a point where *)
(* another request, the chain or the clock may move.                       *)
(***************************************************************************)
EXTENDS Integers, Sequences, FiniteSets, TLC

\* ------------------------------------------------------------------ bounds
\* Number of HTTP requests (/verify or /settle) the model issues.
MaxReq == 2
\* Number of milliseconds the clock may advance during the run.
MaxTick == 1
\* milliseconds the clock of the rate limiter advances
MaxClock == 6

\* ------------------------------------------------------- program constants
X402_VERSION == 1
SOLANA_NETWORKS == {"solana-mainnet", "solana-devnet"}
SOLANA_SCHEMES == {"solana-transfer", "solana-spl"}
TRANSFER == "solana-transfer"
SPL == "solana-spl"
USDC_MINT_MAINNET == "EPjFWdd5AufqSSqeM2qN1xzybapC8G4wEGGkZwyTDt1v"
USDC_MINT_DEVNET == "4zMMC9srt5Ri5X14GAgXhaHii3GnPAEERYPJgZJDncDU"
\* const maxAge = 5 * 60 * 1000
maxAge == 5 * 60 * 1000
\* payload.signature.length < 87
MinSignatureLength == 87
\* toAtomicUnits(..., 9): SOL has 9 decimals
SolDecimals == 9
\* getTokenDecimals: USDC has 6 decimals
UsdcDecimals == 6
\* getTokenDecimals: "defaulting to 9"
DefaultDecimals == 9

\* The value JavaScript's null / undefined / absent field takes in a string
\* position of the model.
Null == "null"

\* ------------------------------------------------------------ environment
\* Date.now() at the start of the run; payload timestamps are relative to it.
StartNow == 2 * maxAge

\* Base58 strings that new PublicKey() accepts.
PayTo == "D1KpayTo"
Alice == "AliceFrom"
OtherMint == "MintXYZ"
\* A public key that is not on the ed25519 curve (a program-derived address).
OffCurve == "PdaOwner"
ValidAddresses == {PayTo, Alice, OffCurve, OtherMint, USDC_MINT_MAINNET, USDC_MINT_DEVNET}

\* Decimals stored in the mint account of OtherMint on chain.
OtherMintDecimals == 8

\* A signature string is modelled by its identity and its length.
SigA == [id |-> "sigA", len |-> 88]
SigB == [id |-> "sigB", len |-> 88]
\* Signature of a transaction the facilitator rebuilt (fresh blockhash).
SigR == [id |-> "sigR", len |-> 88]
SigShort == [id |-> "short", len |-> 64]
NoSig == [id |-> Null, len |-> 0]
Sigs == {SigA, SigB, SigR}

\* ------------------------------------------------------------- core utils
\* isValidSolanaAddress: new PublicKey(address) does not throw.
isValidSolanaAddress(address) == address \in ValidAddresses

RECURSIVE Pow10(_)
Pow10(n) == IF n = 0 THEN 1 ELSE 10 * Pow10(n - 1)

\* parseFloat of a decimal string "m / 10^e" is carried as [mant, exp];
\* the amount in atomic units, rounded down, computed without rounding error.
ExactUnits(amount, decimals) ==
    IF decimals >= amount.exp
    THEN amount.mant * Pow10(decimals - amount.exp)
    ELSE amount.mant \div Pow10(amount.exp - decimals)

\* amount * Math.pow(10, decimals) is a product of doubles: the exact product
\* of the double nearest to the decimal string and 10^decimals, rounded to the
\* nearest double. For these (amount, decimals) the result lies just below
\* the integer (2.01 * 10^9 is 2009999999.9999998, 2.01 * 10^8 is
\* 200999999.99999997, 2.01 * 10^6 is 2009999.9999999998); for the other
\* amounts of this model (0.01 and 1) it is the integer itself.
RoundsBelow ==
    { <<[mant |-> 201, exp |-> 2], d>> : d \in {6, 8, 9} }

\* toAtomicUnits is BigInt(Math.floor(amount * Math.pow(10, decimals))).
toAtomicUnits(amount, decimals) ==
    IF <<amount, decimals>> \in RoundsBelow
    THEN ExactUnits(amount, decimals) - 1
    ELSE ExactUnits(amount, decimals)

\* getAssociatedTokenAddress(mint, owner): a program-derived address, a
\* deterministic function of the two keys.
getAssociatedTokenAddress(mint, owner) == "ata:" \o mint \o ":" \o owner
\* Called without allowOwnerOffCurve, it throws TokenOwnerOffCurveError for an
\* owner that is not on the curve.
IsOnCurve(owner) == owner # OffCurve

\* decodePaymentPayload: base64-decode and JSON.parse; it throws X402Error
\* 'Invalid payment payload encoding' when the text is not JSON, and then
\* yields no payload.
decodePaymentPayload(header) ==
    IF header.isJson THEN [threw |-> FALSE, value |-> header.json]
    ELSE [threw |-> TRUE, value |-> [error |-> "INVALID_PAYLOAD"]]

\* ---------------------------------------------------------- scheme engines
Valid == [isValid |-> TRUE, invalidReason |-> Null]
Invalid(reason) == [isValid |-> FALSE, invalidReason |-> reason]

\* toPublicKey(address) throws X402Error(`Invalid Solana address: ...`)
AddressError == "Verification error: Invalid Solana address"
\* BigInt(payload.amount) throws SyntaxError on a non-integer string
AmountError == "Verification error: Cannot convert to a BigInt"
\* getAssociatedTokenAddress throws TokenOwnerOffCurveError
OffCurveError == "Verification error: TokenOwnerOffCurveError"

\* A bug: a replay check keyed on the nonce, so that the verdict depends on
\* more than the checks of the source.
Transfer_verifyPayment_nonce(pp, requirement, t) ==
    LET payload == pp.payload IN
    IF pp.scheme # TRANSFER THEN Invalid("Invalid scheme")
    ELSE IF payload.signature = NoSig \/ payload.signature.len < MinSignatureLength
    THEN Invalid("Invalid signature format")
    ELSE IF payload.nonce # "n1" THEN Invalid("Nonce already used")
    ELSE IF ~isValidSolanaAddress(payload.from) \/ ~isValidSolanaAddress(requirement.payTo)
    THEN Invalid(AddressError)
    ELSE IF ~payload.amount.isInteger THEN Invalid(AmountError)
    ELSE IF payload.amount.value < toAtomicUnits(requirement.maxAmountRequired, SolDecimals)
    THEN Invalid("Insufficient payment amount")
    ELSE IF t - payload.timestamp > maxAge THEN Invalid("Payment payload expired")
    ELSE Valid

\* A bug: a transfer payload that carries a mint is refused.
Transfer_verifyPayment_refusesMint(pp, requirement, t) ==
    LET payload == pp.payload IN
    IF pp.scheme # TRANSFER THEN Invalid("Invalid scheme")
    ELSE IF payload.signature = NoSig \/ payload.signature.len < MinSignatureLength
    THEN Invalid("Invalid signature format")
    ELSE IF payload.mint # Null THEN Invalid("Unexpected mint")
    ELSE IF ~isValidSolanaAddress(payload.from) \/ ~isValidSolanaAddress(requirement.payTo)
    THEN Invalid(AddressError)
    ELSE IF ~payload.amount.isInteger THEN Invalid(AmountError)
    ELSE IF payload.amount.value < toAtomicUnits(requirement.maxAmountRequired, SolDecimals)
    THEN Invalid("Insufficient payment amount")
    ELSE IF t - payload.timestamp > maxAge THEN Invalid("Payment payload expired")
    ELSE Valid

\* A bug: a payload of exactly maxAge is already expired.
Transfer_verifyPayment_expiredAtMaxAge(pp, requirement, t) ==
    LET payload == pp.payload IN
    IF pp.scheme # TRANSFER THEN Invalid("Invalid scheme")
    ELSE IF payload.signature = NoSig \/ payload.signature.len < MinSignatureLength
    THEN Invalid("Invalid signature format")
    ELSE IF ~isValidSolanaAddress(payload.from) \/ ~isValidSolanaAddress(requirement.payTo)
    THEN Invalid(AddressError)
    ELSE IF ~payload.amount.isInteger THEN Invalid(AmountError)
    ELSE IF payload.amount.value < toAtomicUnits(requirement.maxAmountRequired, SolDecimals)
    THEN Invalid("Insufficient payment amount")
    ELSE IF t - payload.timestamp >= maxAge THEN Invalid("Payment payload expired")
    ELSE Valid

\* A bug: the freshness check placed before the amount check.
Transfer_verifyPayment_freshnessFirst(pp, requirement, t) ==
    LET payload == pp.payload IN
    IF pp.scheme # TRANSFER THEN Invalid("Invalid scheme")
    ELSE IF payload.signature = NoSig \/ payload.signature.len < MinSignatureLength
    THEN Invalid("Invalid signature format")
    ELSE IF ~isValidSolanaAddress(payload.from) \/ ~isValidSolanaAddress(requirement.payTo)
    THEN Invalid(AddressError)
    ELSE IF t - payload.timestamp > maxAge THEN Invalid("Payment payload expired")
    ELSE IF ~payload.amount.isInteger THEN Invalid(AmountError)
    ELSE IF payload.amount.value < toAtomicUnits(requirement.maxAmountRequired, SolDecimals)
    THEN Invalid("Insufficient payment amount")
    ELSE Valid

\* SolanaTransferScheme.verifyPayment(paymentPayload, requirement) evaluated
\* when Date.now() = t.
Transfer_verifyPayment(pp, requirement, t) ==
    LET payload == pp.payload IN
    IF pp.scheme # TRANSFER THEN Invalid("Invalid scheme")
    ELSE IF payload.signature = NoSig \/ payload.signature.len < MinSignatureLength
    THEN Invalid("Invalid signature format")
    ELSE IF ~isValidSolanaAddress(payload.from) \/ ~isValidSolanaAddress(requirement.payTo)
    THEN Invalid(AddressError)
    ELSE IF ~payload.amount.isInteger THEN Invalid(AmountError)
    ELSE IF payload.amount.value < toAtomicUnits(requirement.maxAmountRequired, SolDecimals)
    THEN Invalid("Insufficient payment amount")
    ELSE IF t - payload.timestamp > maxAge THEN Invalid("Payment payload expired")
    ELSE Valid

\* A bug: the amount is checked before the token accounts.
SPL_verifyPayment_amountFirst(pp, requirement, tokenDecimals, t) ==
    LET payload == pp.payload IN
    IF pp.scheme # SPL THEN Invalid("Invalid scheme")
    ELSE IF payload.signature = NoSig \/ payload.signature.len < MinSignatureLength
    THEN Invalid("Invalid signature format")
    ELSE IF payload.mint # requirement.asset THEN Invalid("Mint mismatch")
    ELSE IF \/ ~isValidSolanaAddress(payload.from)
            \/ ~isValidSolanaAddress(requirement.payTo)
            \/ ~isValidSolanaAddress(payload.mint)
    THEN Invalid(AddressError)
    ELSE IF ~payload.amount.isInteger THEN Invalid(AmountError)
    ELSE IF payload.amount.value < toAtomicUnits(requirement.maxAmountRequired, tokenDecimals)
    THEN Invalid("Insufficient payment amount")
    ELSE IF ~IsOnCurve(payload.from) \/ ~IsOnCurve(requirement.payTo)
    THEN Invalid(OffCurveError)
    ELSE IF payload.fromTokenAccount # getAssociatedTokenAddress(payload.mint, payload.from)
    THEN Invalid("Invalid from token account")
    ELSE IF payload.toTokenAccount # getAssociatedTokenAddress(payload.mint, requirement.payTo)
    THEN Invalid("Invalid to token account")
    ELSE IF t - payload.timestamp > maxAge THEN Invalid("Payment payload expired")
    ELSE Valid

\* SolanaSPLScheme.verifyPayment(paymentPayload, requirement, tokenDecimals)
\* evaluated when Date.now() = t.
SPL_verifyPayment(pp, requirement, tokenDecimals, t) ==
    LET payload == pp.payload IN
    IF pp.scheme # SPL THEN Invalid("Invalid scheme")
    ELSE IF payload.signature = NoSig \/ payload.signature.len < MinSignatureLength
    THEN Invalid("Invalid signature format")
    ELSE IF payload.mint # requirement.asset THEN Invalid("Mint mismatch")
    ELSE IF \/ ~isValidSolanaAddress(payload.from)
            \/ ~isValidSolanaAddress(requirement.payTo)
            \/ ~isValidSolanaAddress(payload.mint)
    THEN Invalid(AddressError)
    ELSE IF ~IsOnCurve(payload.from) \/ ~IsOnCurve(requirement.payTo)
    THEN Invalid(OffCurveError)
    ELSE IF payload.fromTokenAccount # getAssociatedTokenAddress(payload.mint, payload.from)
    THEN Invalid("Invalid from token account")
    ELSE IF payload.toTokenAccount # getAssociatedTokenAddress(payload.mint, requirement.payTo)
    THEN Invalid("Invalid to token account")
    ELSE IF ~payload.amount.isInteger THEN Invalid(AmountError)
    ELSE IF payload.amount.value < toAtomicUnits(requirement.maxAmountRequired, tokenDecimals)
    THEN Invalid("Insufficient payment amount")
    ELSE IF t - payload.timestamp > maxAge THEN Invalid("Payment payload expired")
    ELSE Valid

\* ------------------------------------------------------------------ inputs
Lamports(n) == [isInteger |-> TRUE, value |-> n]

SolPayload(amount, timestamp, nonce) ==
    [from |-> Alice, signature |-> SigA, amount |-> amount, timestamp |-> timestamp,
     nonce |-> nonce, mint |-> Null, fromTokenAccount |-> Null, toTokenAccount |-> Null]

SplPayload(mint, amount, timestamp) ==
    [from |-> Alice, signature |-> SigB, amount |-> amount, timestamp |-> timestamp,
     nonce |-> "n1", mint |-> mint,
     fromTokenAccount |-> getAssociatedTokenAddress(mint, Alice),
     toTokenAccount |-> getAssociatedTokenAddress(mint, PayTo)]

PaymentPayload(scheme, network, payload) ==
    [x402Version |-> X402_VERSION, scheme |-> scheme, network |-> network,
     payload |-> payload]

\* A header a client sends: base64 of a JSON text that parses to pp.
Header(pp) == [isJson |-> TRUE, json |-> pp]
GarbageHeader == [isJson |-> FALSE, json |-> [text |-> "not json"]]

\* createSolTransferRequirement / createSplTransferRequirement:
\* extra.priorityFee is 5000 lamports
DefaultPriorityFee == 5000

Requirement(scheme, network, amount, asset) ==
    [scheme |-> scheme, network |-> network, maxAmountRequired |-> amount,
     payTo |-> PayTo, asset |-> asset,
     extra |-> [priorityFee |-> DefaultPriorityFee]]

\* S1: 0.01 SOL on devnet.
ReqSol == Requirement(TRANSFER, "solana-devnet", [mant |-> 1, exp |-> 2], "SOL")
\* 1 token of a mint that is not in the stablecoin table.
ReqTok == Requirement(SPL, "solana-devnet", [mant |-> 1, exp |-> 0], OtherMint)
\* S5: 1 USDC.
ReqUsdc == Requirement(SPL, "solana-mainnet", [mant |-> 1, exp |-> 0], USDC_MINT_MAINNET)

\* A scheme and a network the facilitator has no engine for.
OtherScheme == "solana-other"
Testnet == "solana-testnet"
ReqTestnet == Requirement(TRANSFER, Testnet, [mant |-> 1, exp |-> 2], "SOL")
ReqOtherScheme == Requirement(OtherScheme, "solana-devnet", [mant |-> 1, exp |-> 2], "SOL")

\* Signed maxAge ms before the run starts: valid now, expired one tick later.
PaySol ==
    PaymentPayload(TRANSFER, "solana-devnet",
        SolPayload(Lamports(toAtomicUnits(ReqSol.maxAmountRequired, SolDecimals)),
                   StartNow - maxAge, "n1"))
\* S2: one lamport short; the same payload under two nonces.
PayUnder(nonce) ==
    PaymentPayload(TRANSFER, "solana-devnet",
        SolPayload(Lamports(toAtomicUnits(ReqSol.maxAmountRequired, SolDecimals) - 1),
                   StartNow, nonce))
\* pays twice what is required
PayTok ==
    PaymentPayload(SPL, "solana-devnet",
        SplPayload(OtherMint,
                   Lamports(2 * toAtomicUnits(ReqTok.maxAmountRequired, OtherMintDecimals)),
                   StartNow))
PayUsdc ==
    PaymentPayload(SPL, "solana-mainnet",
        SplPayload(USDC_MINT_MAINNET,
                   Lamports(toAtomicUnits(ReqUsdc.maxAmountRequired, UsdcDecimals)),
                   StartNow))

\* The SOL payment, fresh, under a scheme or on a network without engine.
PayElsewhere(scheme, network) ==
    PaymentPayload(scheme, network,
        SolPayload(Lamports(toAtomicUnits(ReqSol.maxAmountRequired, SolDecimals)),
                   StartNow, "n1"))

Input(version, header, requirement) ==
    [x402Version |-> version, paymentHeader |-> header,
     paymentRequirements |-> requirement]

\* The request bodies the model posts to /verify and /settle.
Inputs ==
    << Input(X402_VERSION, Header(PaySol), ReqSol),
       Input(X402_VERSION, Header(PayUnder("n1")), ReqSol),
       Input(X402_VERSION, Header(PayUnder("n2")), ReqSol),
       Input(X402_VERSION + 1, Header(PaySol), ReqSol),
       Input(X402_VERSION, GarbageHeader, ReqSol),
       Input(X402_VERSION, Header(PayTok), ReqTok),
       Input(X402_VERSION, Header(PayUsdc), ReqUsdc),
       Input(X402_VERSION, Header(PayElsewhere(TRANSFER, Testnet)), ReqTestnet),
       Input(X402_VERSION, Header(PayElsewhere(OtherScheme, "solana-devnet")),
             ReqOtherScheme) >>
InputIds == 1..Len(Inputs)

\* One run posts the bodies of one payment: a SOL payment and its rejected
\* variants, an SPL payment of an unlisted mint, a USDC payment, or payments
\* under a scheme or on a network without engine.
IsSolInput(i) == Inputs[i].paymentRequirements.asset = "SOL"
IsRoutable(i) ==
    /\ Inputs[i].paymentRequirements.scheme \in SOLANA_SCHEMES
    /\ Inputs[i].paymentRequirements.network \in SOLANA_NETWORKS
Scenarios ==
    { {i \in InputIds : IsSolInput(i) /\ IsRoutable(i)},
      {i \in InputIds : ~IsRoutable(i)} }
    \cup { {i} : i \in {j \in InputIds : ~IsSolInput(j)} }

\* ------------------------------------------------------------------- state
VARIABLES
    rq,     \* rq[r]: request r, its position in the handler and its locals
    chain,  \* chain[network][signature]: what the cluster knows of a transaction
    now,    \* Date.now()
    offered, \* the request bodies clients post in this run
    transferSchemes, \* FacilitatorService.transferSchemes: networks with an engine
    splSchemes,      \* FacilitatorService.splSchemes: networks with an engine
    call    \* one direct invocation of a function: its arguments and result

vars == <<rq, chain, now, offered, transferSchemes, splSchemes, call>>

Reqs == 1..MaxReq

NoResponse == [pending |-> TRUE]
NoVerdict == [isValid |-> FALSE, invalidReason |-> Null]

\* new Transaction(): no instruction, no fee payer, no signature
NoTransaction ==
    [instructions |-> <<>>, recentBlockhash |-> Null, feePayer |-> Null,
     signatures |-> {}]

IdleRequest ==
    [kind |-> Null, inp |-> 0, pc |-> "idle", prior |-> {},
     dec |-> 0, fres |-> NoVerdict, sdec |-> 0, eres |-> NoVerdict,
     txInfo |-> FALSE, ata |-> "unknown", create |-> FALSE,
     tx |-> NoTransaction, sig |-> NoSig,
     calls |-> <<>>, resp |-> NoResponse]

\* No function is invoked directly.
NoCall == [op |-> "none"]

\* A bug: engines are created for the first network only.
initializeSchemes_devnetOnly ==
    /\ transferSchemes = {"solana-devnet"}
    /\ splSchemes = {"solana-devnet"}

\* initializeSchemes: one engine of each scheme per value of SOLANA_NETWORKS.
initializeSchemes ==
    /\ transferSchemes = SOLANA_NETWORKS
    /\ splSchemes = SOLANA_NETWORKS

Init ==
    /\ rq = [r \in Reqs |-> IdleRequest]
    /\ chain = [n \in SOLANA_NETWORKS |-> [s \in Sigs |-> "absent"]]
    /\ now = StartNow
    /\ offered \in Scenarios
    /\ initializeSchemes
    /\ call = NoCall

InputOf(r) == Inputs[rq[r].inp]
RequirementOf(r) == InputOf(r).paymentRequirements
\* Only read once the header has been decoded successfully.
PayloadOf(r) == decodePaymentPayload(InputOf(r).paymentHeader).value
NetworkOf(r) == RequirementOf(r).network

\* ------------------------------------------------------ FacilitatorService
\* FacilitatorService.verifyPayment up to the choice of the scheme handler:
\* either the verdict it returns at once, or the handler it delegates to.
Reject(reason) == [to |-> "reject", verdict |-> Invalid(reason)]
Delegate(handler) == [to |-> handler, verdict |-> NoVerdict]

\* A bug: the handler is chosen without consulting the registry, and a
\* scheme that is not solana-spl is handled as a transfer.
Facilitator_route_noLookup(x402Version, paymentHeader, requirement) ==
    IF x402Version # X402_VERSION THEN Reject("Unsupported x402 version")
    ELSE LET decoded == decodePaymentPayload(paymentHeader) IN
    IF decoded.threw
    THEN Reject("Verification failed: Invalid payment payload encoding")
    ELSE IF decoded.value.scheme # requirement.scheme
    THEN Reject("Payment scheme mismatch")
    ELSE IF decoded.value.network # requirement.network
    THEN Reject("Payment network mismatch")
    ELSE IF decoded.value.scheme = SPL THEN Delegate("spl")
    ELSE Delegate("transfer")

\* A bug: the header is decoded before the version is looked at.
Facilitator_route_decodeFirst(x402Version, paymentHeader, requirement) ==
    LET decoded == decodePaymentPayload(paymentHeader) IN
    IF decoded.threw
    THEN Reject("Verification failed: Invalid payment payload encoding")
    ELSE IF x402Version # X402_VERSION THEN Reject("Unsupported x402 version")
    ELSE IF decoded.value.scheme # requirement.scheme
    THEN Reject("Payment scheme mismatch")
    ELSE IF decoded.value.network # requirement.network
    THEN Reject("Payment network mismatch")
    ELSE IF decoded.value.scheme = TRANSFER
    THEN IF requirement.network \in transferSchemes
         THEN Delegate("transfer") ELSE Reject("Unsupported network")
    ELSE IF decoded.value.scheme = SPL
    THEN IF requirement.network \in splSchemes
         THEN Delegate("spl") ELSE Reject("Unsupported network")
    ELSE Reject("Unsupported payment scheme")

Facilitator_route(x402Version, paymentHeader, requirement) ==
    IF x402Version # X402_VERSION THEN Reject("Unsupported x402 version")
    ELSE LET decoded == decodePaymentPayload(paymentHeader) IN
    IF decoded.threw
    THEN Reject("Verification failed: Invalid payment payload encoding")
    ELSE IF decoded.value.scheme # requirement.scheme
    THEN Reject("Payment scheme mismatch")
    ELSE IF decoded.value.network # requirement.network
    THEN Reject("Payment network mismatch")
    ELSE IF decoded.value.scheme = TRANSFER
    THEN IF requirement.network \in transferSchemes
         THEN Delegate("transfer") ELSE Reject("Unsupported network")
    ELSE IF decoded.value.scheme = SPL
    THEN IF requirement.network \in splSchemes
         THEN Delegate("spl") ELSE Reject("Unsupported network")
    ELSE Reject("Unsupported payment scheme")

\* A bug: the table lists the devnet mint only.
InStablecoinTable_devnetOnly(mint) == mint = USDC_MINT_DEVNET

\* getTokenDecimals: the stablecoin table answers without a chain call.
InStablecoinTable(mint) == mint = USDC_MINT_MAINNET \/ mint = USDC_MINT_DEVNET

\* scheme.getTokenMintInfo(mint) answers or throws; toPublicKey(mint) throws
\* for a string that is no public key, so that the lookup can only fail.
MintLookupOutcomes(mint) == IF isValidSolanaAddress(mint) THEN BOOLEAN ELSE {FALSE}

\* A bug: the lookup's answer is ignored and 9 is used.
getTokenDecimals_lookup_fixed9(mint, lookupOk) == DefaultDecimals

\* getTokenDecimals after scheme.getTokenMintInfo(mint): the mint's decimals,
\* or 9 when the lookup threw.
getTokenDecimals_lookup(mint, lookupOk) ==
    IF lookupOk THEN OtherMintDecimals ELSE DefaultDecimals

\* A bug: the reason is dropped from the response.
VerificationResponse_noReason(result) ==
    [isValid |-> result.isValid, invalidReason |-> Null]

\* verifyTransferPayment / verifySPLPayment: { isValid, invalidReason || null }
VerificationResponse(result) ==
    [isValid |-> result.isValid, invalidReason |-> result.invalidReason]

\* settlePayment when verification.isValid is false.
SettleRejected(verification) ==
    [success |-> FALSE, error |-> verification.invalidReason,
     txHash |-> NoSig, networkId |-> Null]

\* A bug: the network is left out of the engine's answer.
SettlementResponse_noNetwork(result, requirement) ==
    [success |-> result.success, error |-> result.error,
     txHash |-> result.txHash, networkId |-> Null]

\* settleTransferPayment / settleSPLPayment wrapping the engine's result:
\* { success, error || null, txHash || null, networkId: requirement.network }
SettlementResponse(result, requirement) ==
    [success |-> result.success, error |-> result.error,
     txHash |-> result.txHash, networkId |-> requirement.network]

\* --------------------------------------------- scheme engines: settlePayment
\* A bug: the rejection reports a generic error, not the verification's reason.
Settle_verifyFailed_generic(verification) ==
    [success |-> FALSE, error |-> "Settlement error", txHash |-> NoSig]

\* return { success: false, error: verification.invalidReason }
Settle_verifyFailed(verification) ==
    [success |-> FALSE, error |-> verification.invalidReason, txHash |-> NoSig]

\* A bug: the idempotent answer leaves the txHash out.
Settle_alreadyOnChain_noHash(payload) ==
    [success |-> TRUE, error |-> Null, txHash |-> NoSig]

\* if (txInfo) return { success: true, txHash: payload.signature }
Settle_alreadyOnChain(payload) ==
    [success |-> TRUE, error |-> Null, txHash |-> payload.signature]

\* after confirmTransaction resolved: return { success: true, txHash: signature }
\* (the resolved value, and its err field, are not read)
Settle_confirmed(signature, err) ==
    [success |-> TRUE, error |-> Null, txHash |-> signature]

\* catch (error): return { success: false, error: `Settlement error: ...` }
Settle_caught ==
    [success |-> FALSE, error |-> "Settlement error", txHash |-> NoSig]

\* The idempotency probe: getTransaction(payload.signature) returns a record
\* for a transaction the cluster has confirmed (executed well or not), null
\* otherwise, and may throw; a throw is swallowed like a null.
ProbeOutcomes(status) ==
    (IF status \in {"confirmed", "failed"} THEN {"found"} ELSE {"null"}) \cup {"throws"}
ProbeFound(outcome) == outcome = "found"

\* A bug: the SPL engine goes straight to the blockhash, as the transfer
\* engine does.
AfterProbe_noAta(scheme) == "blockhash"

\* The step that follows a probe that found nothing.
AfterProbe(scheme) == IF scheme = SPL THEN "ata" ELSE "blockhash"

\* ------------------------------------- settlePayment: the rebuilt transaction
\* SystemProgram.transfer({ fromPubkey, toPubkey, lamports })
SystemTransfer(from, to, lamports) ==
    [program |-> "System", instruction |-> "transfer",
     from |-> from, to |-> to, lamports |-> lamports]

\* createTransferInstruction(source, destination, owner, amount, [],
\* TOKEN_PROGRAM_ID)
TokenTransfer(source, destination, owner, amount) ==
    [program |-> "Token", instruction |-> "transfer",
     source |-> source, destination |-> destination, owner |-> owner,
     amount |-> amount]

\* createAssociatedTokenAccountInstruction(payer, associatedToken, owner, mint)
CreateAssociatedTokenAccount(payer, associatedToken, owner, mint) ==
    [program |-> "AssociatedToken", instruction |-> "create",
     payer |-> payer, associatedToken |-> associatedToken, owner |-> owner,
     mint |-> mint]

\* transaction.recentBlockhash = blockhash; transaction.feePayer = fromPubkey;
\* nothing signs the transaction.
Rebuilt(instructions, from) ==
    [instructions |-> instructions, recentBlockhash |-> "latest",
     feePayer |-> from, signatures |-> {}]

\* A bug: the priority-fee transfer of createPayment is rebuilt too.
Transfer_rebuild_withPriorityFee(payload, requirement) ==
    Rebuilt(<<SystemTransfer(payload.from, requirement.payTo, payload.amount.value)>>
            \o (IF requirement.extra.priorityFee > 0
                THEN <<SystemTransfer(payload.from, "11111111111111111111111111111112",
                                      requirement.extra.priorityFee)>>
                ELSE <<>>),
            payload.from)

\* SolanaTransferScheme.settlePayment, "Reconstruct and submit transaction"
Transfer_rebuild(payload, requirement) ==
    Rebuilt(<<SystemTransfer(payload.from, requirement.payTo, payload.amount.value)>>,
            payload.from)

\* SolanaSPLScheme.settlePayment, "Reconstruct and submit transaction": the
\* create instruction, when the probe asked for it, then the transfer.
SPL_rebuild(payload, requirement, create) ==
    Rebuilt((IF create
             THEN <<CreateAssociatedTokenAccount(payload.from, payload.toTokenAccount,
                                                 requirement.payTo, payload.mint)>>
             ELSE <<>>)
            \o <<TokenTransfer(payload.fromTokenAccount, payload.toTokenAccount,
                               payload.from, payload.amount.value)>>,
            payload.from)

\* ----------------------------------------------------------------- actions
\* The handler answers and returns: the transaction it had built is gone.
Finish(r, rec, response) ==
    rq' = [rq EXCEPT ![r] = [rec EXCEPT !.pc = "done", !.resp = response,
                                        !.ata = "unknown", !.create = FALSE,
                                        !.tx = NoTransaction]]

Goto(r, rec, pc) ==
    rq' = [rq EXCEPT ![r] = [rec EXCEPT !.pc = pc]]

Called(rec, name) == [rec EXCEPT !.calls = Append(@, name)]

\* A bug the catch block does not have: trying the submission again.
Caught_retry(r, rec) == Goto(r, rec, "send")

\* A chain call of settlePayment threw: the catch block ends the request.
Caught(r, rec) ==
    Finish(r, rec, SettlementResponse(Settle_caught, Inputs[rec.inp].paymentRequirements))

\* The /settle requests with body i that had already been answered
\* success=true (what a /settle of the same body now arriving follows).
SettledBefore(kind, i) ==
    IF kind # "settle" THEN {}
    ELSE {q \in Reqs : /\ rq[q].pc = "done" /\ rq[q].kind = "settle"
                        /\ rq[q].inp = i /\ rq[q].resp.success}

\* A /verify or /settle request arrives (requests are numbered in order of
\* arrival).
Start(r) ==
    /\ rq[r].pc = "idle"
    /\ \A q \in Reqs : q < r => rq[q].pc # "idle"
    /\ \E kind \in {"verify", "settle"}, i \in offered :
          rq' = [rq EXCEPT ![r] = [IdleRequest EXCEPT
                    !.kind = kind, !.inp = i, !.pc = "verify",
                    !.prior = SettledBefore(kind, i)]]
    /\ UNCHANGED <<chain, now, offered, transferSchemes, splSchemes, call>>

\* FacilitatorService.verifyPayment returned `result`: /verify answers with
\* it; settlePayment answers with the rejection or goes on to settle.
Verified(r, rec, result) ==
    LET rec2 == [rec EXCEPT !.fres = result] IN
    IF rq[r].kind = "verify"
    THEN Finish(r, rec2, VerificationResponse(result))
    ELSE IF ~result.isValid THEN Finish(r, rec2, SettleRejected(result))
    ELSE Goto(r, rec2, "settle")

\* FacilitatorService.verifyPayment up to its first chain call, or to its end
\* when it makes none.
FacVerify(r) ==
    /\ rq[r].pc = "verify"
    /\ LET in == InputOf(r)
           route == Facilitator_route(in.x402Version, in.paymentHeader,
                                      in.paymentRequirements)
       IN  CASE route.to = "reject" -> Verified(r, rq[r], route.verdict)
             [] route.to = "transfer" ->
                  Verified(r, rq[r],
                      Transfer_verifyPayment(PayloadOf(r), RequirementOf(r), now))
             [] route.to = "spl" ->
                  IF InStablecoinTable(RequirementOf(r).asset)
                  THEN Verified(r, [rq[r] EXCEPT !.dec = UsdcDecimals],
                           SPL_verifyPayment(PayloadOf(r), RequirementOf(r),
                                             UsdcDecimals, now))
                  ELSE Goto(r, rq[r], "decimals")
    /\ UNCHANGED <<chain, now, offered, transferSchemes, splSchemes, call>>

\* verifySPLPayment: getTokenDecimals -> getTokenMintInfo answers or throws,
\* then the engine verifies with the decimals obtained.
FacDecimals(r) ==
    /\ rq[r].pc = "decimals"
    /\ \E lookupOk \in MintLookupOutcomes(RequirementOf(r).asset) :
          LET d == getTokenDecimals_lookup(RequirementOf(r).asset, lookupOk)
              rec == Called([rq[r] EXCEPT !.dec = d], "getParsedAccountInfo")
          IN  Verified(r, rec,
                  SPL_verifyPayment(PayloadOf(r), RequirementOf(r), d, now))
    /\ UNCHANGED <<chain, now, offered, transferSchemes, splSchemes, call>>

\* The engine's settlePayment re-verified the payload with `result`.
Reverified(r, rec, result) ==
    LET rec2 == [rec EXCEPT !.eres = result] IN
    IF ~result.isValid
    THEN Finish(r, rec2,
             SettlementResponse(Settle_verifyFailed(result), RequirementOf(r)))
    ELSE Goto(r, rec2, "probe")

\* settlePayment after a valid verification: decode again, route to
\* settleTransferPayment / settleSPLPayment, whose engine re-verifies first.
SettleRoute(r) ==
    /\ rq[r].pc = "settle"
    /\ IF PayloadOf(r).scheme = TRANSFER
       THEN Reverified(r, rq[r],
                Transfer_verifyPayment(PayloadOf(r), RequirementOf(r), now))
       ELSE IF InStablecoinTable(RequirementOf(r).asset)
       THEN Reverified(r, [rq[r] EXCEPT !.sdec = UsdcDecimals],
                SPL_verifyPayment(PayloadOf(r), RequirementOf(r), UsdcDecimals, now))
       ELSE Goto(r, rq[r], "sdecimals")
    /\ UNCHANGED <<chain, now, offered, transferSchemes, splSchemes, call>>

\* settleSPLPayment: getTokenDecimals again, then the engine's settlePayment.
SettleDecimals(r) ==
    /\ rq[r].pc = "sdecimals"
    /\ \E lookupOk \in MintLookupOutcomes(RequirementOf(r).asset) :
          LET d == getTokenDecimals_lookup(RequirementOf(r).asset, lookupOk)
              rec == Called([rq[r] EXCEPT !.sdec = d], "getParsedAccountInfo")
          IN  Reverified(r, rec,
                  SPL_verifyPayment(PayloadOf(r), RequirementOf(r), d, now))
    /\ UNCHANGED <<chain, now, offered, transferSchemes, splSchemes, call>>

\* connection.getTransaction(payload.signature)
Probe(r) ==
    /\ rq[r].pc = "probe"
    /\ \E outcome \in ProbeOutcomes(chain[NetworkOf(r)][PayloadOf(r).payload.signature]) :
          LET rec == Called([rq[r] EXCEPT !.txInfo = ProbeFound(outcome)],
                            "getTransaction") IN
          IF rec.txInfo
          THEN Finish(r, rec,
                   SettlementResponse(Settle_alreadyOnChain(PayloadOf(r).payload),
                                      RequirementOf(r)))
          ELSE Goto(r, rec, AfterProbe(PayloadOf(r).scheme))
    /\ UNCHANGED <<chain, now, offered, transferSchemes, splSchemes, call>>

\* getAccount(connection, toTokenAccount) returns the account when it exists,
\* throws TokenAccountNotFoundError when it does not, and throws another
\* error when the RPC call fails.
AtaProbeOutcomes(exists) ==
    (IF exists THEN {"exists"} ELSE {"notFound"}) \cup {"otherError"}

\* SPL only: getAccount(connection, toTokenAccount); the create instruction
\* is added only on TokenAccountNotFoundError, any other error is swallowed.
\* Whether the account exists is the cluster's state, kept with the request.
AtaProbe(r) ==
    /\ rq[r].pc = "ata"
    /\ \E exists \in BOOLEAN : \E outcome \in AtaProbeOutcomes(exists) :
          Goto(r, Called([rq[r] EXCEPT !.create = (outcome = "notFound"),
                                       !.ata = IF exists THEN "exists" ELSE "absent"],
                         "getAccount"),
               "blockhash")
    /\ UNCHANGED <<chain, now, offered, transferSchemes, splSchemes, call>>

\* connection.getLatestBlockhash()
Blockhash(r) ==
    /\ rq[r].pc = "blockhash"
    /\ LET rec == Called(rq[r], "getLatestBlockhash")
           tx == IF PayloadOf(r).scheme = SPL
                 THEN SPL_rebuild(PayloadOf(r).payload, RequirementOf(r), rq[r].create)
                 ELSE Transfer_rebuild(PayloadOf(r).payload, RequirementOf(r))
       IN
       \/ Goto(r, [rec EXCEPT !.tx = tx], "send")
       \/ Caught(r, rec)
    /\ UNCHANGED <<chain, now, offered, transferSchemes, splSchemes, call>>

\* The signatures a node may return for the rebuilt transaction: the rebuilt
\* transaction carries a fresh blockhash, so nothing in the engine makes its
\* signature the one in the payload.
RebuiltSignatures(payload) == {payload.signature, SigR}

\* connection.sendRawTransaction(transaction.serialize({ requireAllSignatures:
\* false })) submits rq[r].tx as it was rebuilt: the node accepts the
\* transaction and returns its signature, or the call throws (a transaction
\* already processed is refused).
Send(r) ==
    /\ rq[r].pc = "send"
    /\ LET rec == Called(rq[r], "sendRawTransaction")
           n == NetworkOf(r)
       IN  \/ /\ Caught(r, rec)
              /\ UNCHANGED chain
           \/ \E s \in RebuiltSignatures(PayloadOf(r).payload) :
                 /\ chain[n][s] \in {"absent", "pending"}
                 /\ chain' = [chain EXCEPT ![n][s] = "pending"]
                 /\ Goto(r, [rec EXCEPT !.sig = s], "confirm")
    /\ UNCHANGED <<now, offered, transferSchemes, splSchemes, call>>

\* connection.confirmTransaction(signature, 'confirmed'): resolves once the
\* cluster has confirmed the transaction, with value.err set when it failed;
\* throws on timeout, block-height expiry or RPC failure.
Confirm(r) ==
    /\ rq[r].pc = "confirm"
    /\ LET rec == Called(rq[r], "confirmTransaction")
           status == chain[NetworkOf(r)][rq[r].sig]
       IN  \/ /\ status \in {"confirmed", "failed"}
              /\ Finish(r, rec,
                     SettlementResponse(Settle_confirmed(rq[r].sig, status = "failed"),
                                        RequirementOf(r)))
           \/ Caught(r, rec)
    /\ UNCHANGED <<chain, now, offered, transferSchemes, splSchemes, call>>

\* ------------------------------------------------------------- environment
\* The cluster executes a pending transaction: it is confirmed, having
\* succeeded or failed, or it is dropped when its blockhash expires.
Land(n, s) ==
    /\ chain[n][s] = "pending"
    /\ \E status \in {"confirmed", "failed", "absent"} :
          chain' = [chain EXCEPT ![n][s] = status]
    /\ UNCHANGED <<rq, now, offered, transferSchemes, splSchemes, call>>

\* A millisecond passes.
Tick ==
    /\ now < StartNow + MaxTick
    /\ now' = now + 1
    /\ UNCHANGED <<rq, chain, offered, transferSchemes, splSchemes, call>>

Step(r) ==
    \/ Start(r)
    \/ FacVerify(r)
    \/ FacDecimals(r)
    \/ SettleRoute(r)
    \/ SettleDecimals(r)
    \/ Probe(r)
    \/ AtaProbe(r)
    \/ Blockhash(r)
    \/ Send(r)
    \/ Confirm(r)

Next ==
    \/ \E r \in Reqs : Step(r)
    \/ \E n \in SOLANA_NETWORKS, s \in Sigs : Land(n, s)
    \/ Tick

Spec == Init /\ [][Next]_vars

\* ------------------------------------------------------ direct invocations
\* The functions of the facilitator and of the engines invoked directly, one
\* invocation per behaviour, on arguments drawn from the sets below.
SigOfLength(n) == [id |-> "sigL", len |-> n]
\* a missing signature and the lengths 86, 87, 88, 89
SignaturesTried ==
    {NoSig} \cup {SigOfLength(n) : n \in (MinSignatureLength - 1)..(MinSignatureLength + 2)}

\* payload.amount that is not the decimal text of an integer ("1.5")
NotInteger == [isInteger |-> FALSE, value |-> 0]
\* a string new PublicKey() rejects
BadAddress == "not-base58"

\* ages maxAge + 1, maxAge and 0 at the time of the invocation
TimestampsTried == {StartNow - maxAge - 1, StartNow - maxAge, StartNow}
\* 0.01 and 2.01
AmountsRequired == {[mant |-> 1, exp |-> 2], [mant |-> 201, exp |-> 2]}
DecimalsTried == {UsdcDecimals, OtherMintDecimals, DefaultDecimals}

RequirementsTried ==
    { Requirement(k[1], n, a, k[2]) :
        k \in {<<TRANSFER, "SOL">>, <<SPL, OtherMint>>, <<SPL, USDC_MINT_DEVNET>>,
               <<OtherScheme, "SOL">>, <<SPL, "SOL">>},
        n \in {"solana-devnet", Testnet},
        a \in AmountsRequired }

\* The amounts offered against a requirement: what is required, one and two
\* units less, under either number of decimals; or no integer at all.
AmountsFor(requirement) ==
    { Lamports(ExactUnits(requirement.maxAmountRequired, d) - k) :
        d \in DecimalsTried, k \in 0..2 }
    \cup {NotInteger}

\* scheme, mint and token accounts of a payload
Shapes ==
    { [scheme |-> s, mint |-> Null, accounts |-> "none"] : s \in {TRANSFER, OtherScheme} }
    \cup { [scheme |-> SPL, mint |-> m, accounts |-> a] :
             m \in {OtherMint, USDC_MINT_DEVNET}, a \in {"derived", "badFrom", "badTo"} }

TokenAccount(shape, from, owner, bad) ==
    IF shape.accounts = "none" THEN Null
    ELSE IF shape.accounts = bad THEN getAssociatedTokenAddress(shape.mint, BadAddress)
    ELSE getAssociatedTokenAddress(shape.mint, owner)

PayloadTried(shape, network, sig, from, amount, ts, requirement) ==
    PaymentPayload(shape.scheme, network,
        [from |-> from, signature |-> sig, amount |-> amount, timestamp |-> ts,
         nonce |-> "n1", mint |-> shape.mint,
         fromTokenAccount |-> TokenAccount(shape, from, from, "badFrom"),
         toTokenAccount |-> TokenAccount(shape, from, requirement.payTo, "badTo")])

Args(body) == [op |-> "args", body |-> body]

\* The arguments of the invocation: every combination of the above under the
\* version the facilitator speaks; under another version only scheme, network
\* and signature of the payload are varied; and a header that is not JSON.
ArgsDrawn ==
    \E req \in RequirementsTried :
       \/ \E shape \in Shapes, n \in {"solana-devnet", Testnet},
             sig \in SignaturesTried, from \in {Alice, BadAddress, OffCurve},
             amount \in AmountsFor(req), ts \in TimestampsTried :
                call = Args(Input(X402_VERSION,
                                  Header(PayloadTried(shape, n, sig, from, amount, ts, req)),
                                  req))
       \/ \E shape \in Shapes, n \in {"solana-devnet", Testnet}, sig \in SignaturesTried :
                call = Args(Input(X402_VERSION + 1,
                                  Header(PayloadTried(shape, n, sig, Alice, NotInteger,
                                                      StartNow, req)),
                                  req))
       \/ \E v \in {X402_VERSION, X402_VERSION + 1} :
                call = Args(Input(v, GarbageHeader, req))

\* Object.values(SOLANA_NETWORKS), Object.values(SOLANA_SCHEMES) in order
NetworkValues == <<"solana-mainnet", "solana-devnet">>
SchemeValues == <<TRANSFER, SPL>>

\* getSupportedSchemes: kinds, one { scheme, network } pushed per network and
\* per scheme, networks in the outer loop.
getSupportedSchemes ==
    [k \in 1..(Len(NetworkValues) * Len(SchemeValues)) |->
        [scheme |-> SchemeValues[((k - 1) % Len(SchemeValues)) + 1],
         network |-> NetworkValues[((k - 1) \div Len(SchemeValues)) + 1]]]

\* What one run of FacilitatorService.verifyPayment does: the response, whether
\* an engine's verifyPayment ran, the decimals resolved and the number of
\* getTokenMintInfo lookups made.
Outcome(result, engine, decimals, lookups) ==
    [result |-> result, engine |-> engine, decimals |-> decimals, lookups |-> lookups]

\* FacilitatorService.verifyPayment(x402Version, paymentHeader,
\* paymentRequirements) when Date.now() = t and the mint lookup, if made,
\* succeeds or throws.
Facilitator_verifyPayment(body, lookupOk, t) ==
    LET requirement == body.paymentRequirements
        route == Facilitator_route(body.x402Version, body.paymentHeader, requirement)
        pp == decodePaymentPayload(body.paymentHeader).value
    IN  CASE route.to = "reject" ->
               Outcome(VerificationResponse(route.verdict), FALSE, 0, 0)
          [] route.to = "transfer" ->
               Outcome(VerificationResponse(Transfer_verifyPayment(pp, requirement, t)),
                       TRUE, SolDecimals, 0)
          [] route.to = "spl" ->
               IF InStablecoinTable(requirement.asset)
               THEN Outcome(VerificationResponse(
                                SPL_verifyPayment(pp, requirement, UsdcDecimals, t)),
                            TRUE, UsdcDecimals, 0)
               ELSE LET d == getTokenDecimals_lookup(requirement.asset, lookupOk) IN
                    Outcome(VerificationResponse(SPL_verifyPayment(pp, requirement, d, t)),
                            TRUE, d, 1)

Returned(op, body, lookupOk, outcome) ==
    [op |-> op, body |-> body, lookupOk |-> lookupOk, outcome |-> outcome]

\* ---------------------------------------------------- encodePaymentPayload
\* Values of payload.amount that are no strings: a BigInt, the number NaN,
\* and the JSON null that NaN is written as.
BigIntAmount == [type |-> "bigint"]
NaNAmount == [type |-> "number", nan |-> TRUE]
NullAmount == [type |-> "null"]

\* The members of a JSON text: a string or number literal, the literal null,
\* or no member at all.
JsonString(v) == [json |-> "string", v |-> v]
JsonNumber(v) == [json |-> "number", v |-> v]
JsonNull == [json |-> "null"]
Omitted == [json |-> "omitted"]

\* JSON.stringify of a string-valued property: omitted when undefined.
StringMember(v) == IF v = Null THEN Omitted ELSE JsonString(v)

\* JSON.stringify throws a TypeError on a BigInt.
StringifyThrows(pp) == pp.payload.amount = BigIntAmount

\* A bug: the nonce is left out of the text.
JSON_stringify_noNonce(pp) ==
    [x402Version |-> JsonNumber(pp.x402Version),
     scheme |-> StringMember(pp.scheme),
     network |-> StringMember(pp.network),
     payload |->
        [from |-> StringMember(pp.payload.from),
         signature |-> IF pp.payload.signature = NoSig THEN Omitted
                       ELSE JsonString(pp.payload.signature),
         amount |-> IF pp.payload.amount = NaNAmount THEN JsonNull
                    ELSE JsonString(pp.payload.amount),
         timestamp |-> JsonNumber(pp.payload.timestamp),
         nonce |-> Omitted,
         mint |-> StringMember(pp.payload.mint),
         fromTokenAccount |-> StringMember(pp.payload.fromTokenAccount),
         toTokenAccount |-> StringMember(pp.payload.toTokenAccount)]]

\* JSON.stringify(payload): the text, member by member. Properties whose
\* value is undefined are omitted, strings and integers are written as
\* literals, NaN is written as null.
JSON_stringify(pp) ==
    [x402Version |-> JsonNumber(pp.x402Version),
     scheme |-> StringMember(pp.scheme),
     network |-> StringMember(pp.network),
     payload |->
        [from |-> StringMember(pp.payload.from),
         signature |-> IF pp.payload.signature = NoSig THEN Omitted
                       ELSE JsonString(pp.payload.signature),
         amount |-> IF pp.payload.amount = NaNAmount THEN JsonNull
                    ELSE JsonString(pp.payload.amount),
         timestamp |-> JsonNumber(pp.payload.timestamp),
         nonce |-> StringMember(pp.payload.nonce),
         mint |-> StringMember(pp.payload.mint),
         fromTokenAccount |-> StringMember(pp.payload.fromTokenAccount),
         toTokenAccount |-> StringMember(pp.payload.toTokenAccount)]]

\* The value JSON.parse gives a property: the literal's value, or undefined
\* when the text has no such member.
Property(member, undefined) ==
    IF member = Omitted THEN undefined ELSE member.v

\* JSON.parse(text) of a text with the members of a payment payload.
JSON_parse(text) ==
    [x402Version |-> text.x402Version.v,
     scheme |-> Property(text.scheme, Null),
     network |-> Property(text.network, Null),
     payload |->
        [from |-> Property(text.payload.from, Null),
         signature |-> Property(text.payload.signature, NoSig),
         amount |-> IF text.payload.amount = JsonNull THEN NullAmount
                    ELSE text.payload.amount.v,
         timestamp |-> text.payload.timestamp.v,
         nonce |-> Property(text.payload.nonce, Null),
         mint |-> Property(text.payload.mint, Null),
         fromTokenAccount |-> Property(text.payload.fromTokenAccount, Null),
         toTokenAccount |-> Property(text.payload.toTokenAccount, Null)]]

\* encodePaymentPayload(payload): Buffer.from(JSON.stringify(payload))
\* .toString('base64'). Base64 loses nothing of the text, so the header is
\* carried as what its text parses to; a throw of JSON.stringify is not
\* caught.
encodePaymentPayload(pp) ==
    IF StringifyThrows(pp) THEN [threw |-> TRUE, header |-> GarbageHeader]
    ELSE [threw |-> FALSE,
          header |-> [isJson |-> TRUE, json |-> JSON_parse(JSON_stringify(pp))]]

\* -------------------------------------------------- decodePaymentPayload
\* JSON values that are no payment payload: the texts "{}" and "null".
EmptyObject == [object |-> "{}"]
NullValue == [object |-> "null"]

\* The headers handed to decodePaymentPayload: text that is not JSON, the
\* headers of two payment payloads, and the base64 of "{}" and of "null".
HeadersTried ==
    {GarbageHeader, Header(PaySol), Header(PayTok),
     [isJson |-> TRUE, json |-> EmptyObject], [isJson |-> TRUE, json |-> NullValue]}

HeaderDrawn == \E header \in HeadersTried : call = [op |-> "header", header |-> header]

\* ------------------------------------------------ validatePaymentRequirement
\* A decimal-looking string is carried as what parseFloat makes of it; the
\* strings below are the other kinds of text a requirement may hold.
DecimalText(mant, exp) == [kind |-> "decimal", mant |-> mant, exp |-> exp]
\* "1abc": parseFloat reads the leading number and ignores the rest
TrailingText == [kind |-> "decimalThenText", mant |-> 1, exp |-> 0]
\* "abc"
NoNumberText == [kind |-> "text", mant |-> 0, exp |-> 0]
\* "Infinity"
InfinityText == [kind |-> "infinity", mant |-> 1, exp |-> 0]
\* the field is absent
AbsentText == [kind |-> "absent", mant |-> 0, exp |-> 0]

\* parseFloat(text): NaN, an infinity or a finite number mant / 10^exp
parseFloat(text) ==
    CASE text.kind \in {"text", "absent"} -> [nan |-> TRUE, finite |-> FALSE, mant |-> 0]
      [] text.kind = "infinity" -> [nan |-> FALSE, finite |-> FALSE, mant |-> text.mant]
      [] OTHER -> [nan |-> FALSE, finite |-> TRUE, mant |-> text.mant]

\* requirement.network.startsWith('solana-'), over the networks of the model
Localnet == "solana-localnet"
Ethereum == "ethereum-mainnet"
StartsWithSolana(network) ==
    network \in {"solana-mainnet", "solana-devnet", Testnet, Localnet}

Ok == [ok |-> TRUE, code |-> Null]
Throws(code) == [ok |-> FALSE, code |-> code]

\* validatePaymentRequirement(requirement): returns, or throws an X402Error
\* with one of the codes below; a missing field reads as Null.
validatePaymentRequirement(requirement) ==
    IF requirement.scheme \notin {"solana-transfer", "solana-spl"}
    THEN Throws("INVALID_SCHEME")
    ELSE IF requirement.network = Null \/ ~StartsWithSolana(requirement.network)
    THEN Throws("INVALID_NETWORK")
    ELSE IF requirement.payTo = Null \/ ~isValidSolanaAddress(requirement.payTo)
    THEN Throws("INVALID_PAY_TO")
    ELSE IF requirement.asset = Null THEN Throws("MISSING_ASSET")
    ELSE IF requirement.scheme = "solana-spl" /\ requirement.asset = "SOL"
    THEN Throws("INVALID_ASSET_SCHEME")
    ELSE IF requirement.scheme = "solana-transfer" /\ requirement.asset # "SOL"
    THEN Throws("INVALID_ASSET_SCHEME")
    ELSE LET amount == parseFloat(requirement.maxAmountRequired) IN
    IF amount.nan \/ amount.mant <= 0 THEN Throws("INVALID_AMOUNT")
    ELSE Ok

\* The maxAmountRequired strings tried: "0.01", "0", "-1", "1abc", "abc",
\* "Infinity" and none.
AmountTextsTried ==
    {DecimalText(1, 2), DecimalText(0, 0), DecimalText(-1, 0),
     TrailingText, NoNumberText, InfinityText, AbsentText}

\* The requirement handed to the validator: every combination of a scheme, a
\* network, a payTo, an asset and an amount, present and well-formed or not.
RequirementDrawn ==
    \E scheme \in {TRANSFER, SPL, OtherScheme, Null},
       network \in {"solana-devnet", Testnet, Localnet, Ethereum, Null},
       payTo \in {PayTo, BadAddress, Null},
       asset \in {"SOL", OtherMint, BadAddress, Null},
       amount \in AmountTextsTried :
          call = [op |-> "requirement",
                  requirement |-> [scheme |-> scheme, network |-> network,
                                   maxAmountRequired |-> amount,
                                   payTo |-> payTo, asset |-> asset]]

\* ------------------------------------------------------------ settlePayment
\* What the RPC node does in one invocation of settlePayment: both mint
\* lookups answer or throw, getTransaction finds the transaction, returns
\* null or throws, and each later call answers or throws. (What getAccount
\* does changes the transaction built, not the result returned.)
RpcBehaviours ==
    [lookupVerify : BOOLEAN, lookupSettle : BOOLEAN,
     getTransaction : {"found", "null", "throws"},
     getLatestBlockhash : {"ok", "throws"},
     sendRawTransaction : {"ok", "throws"},
     confirmTransaction : {"ok", "throws"}]

\* A bug: a probe that throws ends the settlement in the catch block.
Engine_settlePayment_probeFails(verification, payload, rpc) ==
    IF ~verification.isValid THEN Settle_verifyFailed(verification)
    ELSE IF rpc.getTransaction = "found" THEN Settle_alreadyOnChain(payload)
    ELSE IF \/ rpc.getTransaction = "throws"
            \/ rpc.getLatestBlockhash = "throws"
            \/ rpc.sendRawTransaction = "throws"
            \/ rpc.confirmTransaction = "throws"
    THEN Settle_caught
    ELSE Settle_confirmed(SigR, FALSE)

\* A bug: confirmTransaction is not awaited, what it throws is lost.
Engine_settlePayment_confirmNotAwaited(verification, payload, rpc) ==
    IF ~verification.isValid THEN Settle_verifyFailed(verification)
    ELSE IF rpc.getTransaction = "found" THEN Settle_alreadyOnChain(payload)
    ELSE IF rpc.getLatestBlockhash = "throws" \/ rpc.sendRawTransaction = "throws"
    THEN Settle_caught
    ELSE Settle_confirmed(SigR, FALSE)

\* settlePayment of either engine after its own verifyPayment returned
\* `verification`: the rejection; the idempotent answer when the probe found
\* the transaction; the catch block's answer when getLatestBlockhash,
\* sendRawTransaction or confirmTransaction threw; else the signature the
\* node returned.
Engine_settlePayment(verification, payload, rpc) ==
    IF ~verification.isValid THEN Settle_verifyFailed(verification)
    ELSE IF rpc.getTransaction = "found" THEN Settle_alreadyOnChain(payload)
    ELSE IF \/ rpc.getLatestBlockhash = "throws"
            \/ rpc.sendRawTransaction = "throws"
            \/ rpc.confirmTransaction = "throws"
    THEN Settle_caught
    ELSE Settle_confirmed(SigR, FALSE)

\* The calls of this.connection the engine's settlePayment makes, in order:
\* none when its verification fails, the probe alone when it finds the
\* transaction, else the probe (getAccount too for SPL) and the submission
\* up to the first call that throws.
Engine_calls(scheme, verification, rpc) ==
    IF ~verification.isValid THEN <<>>
    ELSE IF rpc.getTransaction = "found" THEN <<"getTransaction">>
    ELSE <<"getTransaction">>
         \o (IF scheme = SPL THEN <<"getAccount">> ELSE <<>>)
         \o <<"getLatestBlockhash">>
         \o (IF rpc.getLatestBlockhash = "throws" THEN <<>>
             ELSE <<"sendRawTransaction">>
                  \o (IF rpc.sendRawTransaction = "throws" THEN <<>>
                      ELSE <<"confirmTransaction">>))

\* settleTransferPayment / settleSPLPayment when the registry has no engine
UnsupportedNetwork ==
    [success |-> FALSE, error |-> "Unsupported network", txHash |-> NoSig,
     networkId |-> Null]

\* What one run of FacilitatorService.settlePayment does: the response, the
\* facilitator's verification, the engine's own verification (NoVerdict when
\* no engine was called) and the calls of the node the engine made.
SettleOutcome(result, verification, reverification, calls) ==
    [result |-> result, verification |-> verification,
     reverification |-> reverification, calls |-> calls]

\* FacilitatorService.settlePayment(x402Version, paymentHeader,
\* paymentRequirements) when Date.now() = t and the node behaves as rpc.
Facilitator_settlePayment(body, rpc, t) ==
    LET requirement == body.paymentRequirements
        verification == Facilitator_verifyPayment(body, rpc.lookupVerify, t).result
        pp == decodePaymentPayload(body.paymentHeader).value
    IN  IF ~verification.isValid
        THEN SettleOutcome(SettleRejected(verification), verification, NoVerdict, <<>>)
        ELSE IF pp.scheme = TRANSFER
        THEN IF requirement.network \notin transferSchemes
             THEN SettleOutcome(UnsupportedNetwork, verification, NoVerdict, <<>>)
             ELSE LET again == Transfer_verifyPayment(pp, requirement, t) IN
                  SettleOutcome(SettlementResponse(
                              Engine_settlePayment(again, pp.payload, rpc), requirement),
                          verification, again, Engine_calls(TRANSFER, again, rpc))
        ELSE IF requirement.network \notin splSchemes
             THEN SettleOutcome(UnsupportedNetwork, verification, NoVerdict, <<>>)
             ELSE LET d == IF InStablecoinTable(requirement.asset) THEN UsdcDecimals
                           ELSE getTokenDecimals_lookup(requirement.asset, rpc.lookupSettle)
                      again == SPL_verifyPayment(pp, requirement, d, t)
                  IN  SettleOutcome(SettlementResponse(
                                  Engine_settlePayment(again, pp.payload, rpc), requirement),
                              verification, again, Engine_calls(SPL, again, rpc))

\* The bodies settled: a SOL payment and a payment of 1 token of OtherMint,
\* paid in full (at the mint's decimals) or with an amount that is no
\* integer, from a key or from a string that is no key, to a payTo that is a
\* key or is none.
SettleArgsDrawn ==
    \E k \in {<<TRANSFER, "SOL", [scheme |-> TRANSFER, mint |-> Null, accounts |-> "none"],
                SolDecimals>>,
               <<SPL, OtherMint, [scheme |-> SPL, mint |-> OtherMint, accounts |-> "derived"],
                OtherMintDecimals>>},
       payTo \in {PayTo, BadAddress}, from \in {Alice, BadAddress},
       integer \in BOOLEAN, rpc \in RpcBehaviours :
        LET req == [Requirement(k[1], "solana-devnet", [mant |-> 1, exp |-> 0], k[2])
                        EXCEPT !.payTo = payTo]
            amount == IF integer THEN Lamports(ExactUnits(req.maxAmountRequired, k[4]))
                      ELSE NotInteger
        IN  call = [op |-> "settle args", rpc |-> rpc,
                    body |-> Input(X402_VERSION,
                                   Header(PayloadTried(k[3], "solana-devnet", SigA, from,
                                                       amount, StartNow, req)),
                                   req)]

\* ------------------------------------------------------ getTransactionStatus
\* What connection.getSignatureStatus(signature) does: it throws, or it
\* returns { value }, value being null for a signature the node does not
\* know, else { err, confirmationStatus, confirmations }, where
\* confirmationStatus may be absent and confirmations is null once the
\* transaction is finalized.
NoStatusValue == [isNull |-> TRUE]
StatusValue(err, confirmationStatus, confirmations) ==
    [isNull |-> FALSE, err |-> err, confirmationStatus |-> confirmationStatus,
     confirmations |-> confirmations]
NullConfirmations == [isNull |-> TRUE, n |-> 0]
Confirmations(n) == [isNull |-> FALSE, n |-> n]
SignatureStatuses ==
    {[threw |-> TRUE, value |-> NoStatusValue], [threw |-> FALSE, value |-> NoStatusValue]}
    \cup { [threw |-> FALSE, value |-> StatusValue(err, cs, c)] :
             err \in BOOLEAN,
             cs \in {"processed", "confirmed", "finalized", "undefined"},
             c \in {NullConfirmations, Confirmations(0), Confirmations(1)} }

\* A bug: a transaction the node only processed counts as confirmed.
Transfer_getTransactionStatus_processed(status) ==
    IF status.threw THEN [confirmed |-> FALSE, error |-> "RPC error"]
    ELSE IF ~status.value.isNull /\ status.value.err
    THEN [confirmed |-> FALSE, error |-> "Transaction failed"]
    ELSE [confirmed |-> ~status.value.isNull,
          confirmations |->
              IF status.value.isNull \/ status.value.confirmations.isNull THEN 0
              ELSE status.value.confirmations.n]

\* SolanaTransferScheme.getTransactionStatus(signature)
Transfer_getTransactionStatus(status) ==
    IF status.threw THEN [confirmed |-> FALSE, error |-> "RPC error"]
    ELSE IF ~status.value.isNull /\ status.value.err
    THEN [confirmed |-> FALSE, error |-> "Transaction failed"]
    ELSE [confirmed |-> /\ ~status.value.isNull
                        /\ status.value.confirmationStatus \in {"confirmed", "finalized"},
          confirmations |->
              IF status.value.isNull \/ status.value.confirmations.isNull THEN 0
              ELSE status.value.confirmations.n]

\* FacilitatorService.getTransactionStatus(signature, network)
Facilitator_getTransactionStatus(network, status) ==
    IF network \notin transferSchemes
    THEN [confirmed |-> FALSE, error |-> "Unsupported network"]
    ELSE Transfer_getTransactionStatus(status)

StatusArgsDrawn ==
    \E network \in SOLANA_NETWORKS \cup {Testnet}, status \in SignatureStatuses :
        call = [op |-> "status args", network |-> network, status |-> status]

\* ------------------------------------------------------ the HTTP endpoints
\* The body of a request: text express.json cannot parse, or a JSON object
\* with its members.
MalformedBody == [parses |-> FALSE]
JsonBody(version, header, requirement) ==
    [parses |-> TRUE, x402Version |-> version, paymentHeader |-> header,
     paymentRequirements |-> requirement]
JsonObject(v) == [json |-> "object", v |-> v]
\* the string ""
EmptyString == [isJson |-> FALSE, json |-> [text |-> ""]]

\* !member: an absent member, null, 0 and "" are falsy
Falsy(member) ==
    CASE member.json \in {"omitted", "null"} -> TRUE
      [] member.json = "number" -> member.v = 0
      [] member.json = "string" -> member.v = EmptyString
      [] OTHER -> FALSE

Response(status, body) == [status |-> status, body |-> body]

\* errorHandler: res.status(500).json({ error: 'Internal server error' })
errorHandler == Response(500, [error |-> "Internal server error"])

\* app.use('*'): res.status(404).json({ error: 'Endpoint not found' })
NotFound == Response(404, [error |-> "Endpoint not found"])

MissingFields ==
    "Missing required fields: x402Version, paymentHeader, or paymentRequirements"

\* the arguments the handler passes to the service
ServiceArgs(body) ==
    Input(body.x402Version.v, body.paymentHeader.v, body.paymentRequirements.v)

\* app.post('/verify'): 400 when one of the three members is falsy, else the
\* service's result with status 200. FacilitatorService.verifyPayment catches
\* what it throws, so the handler's catch block (500) is not entered.
PostVerify(body, lookupOk, t) ==
    IF Falsy(body.x402Version) \/ Falsy(body.paymentHeader)
       \/ Falsy(body.paymentRequirements)
    THEN Response(400, [isValid |-> FALSE, invalidReason |-> MissingFields])
    ELSE Response(200, Facilitator_verifyPayment(ServiceArgs(body), lookupOk, t).result)

\* app.post('/settle'), for a payment the service's verification rejects:
\* 400 when one of the three members is falsy, else the rejection with status
\* 200. FacilitatorService.settlePayment catches what it throws.
PostSettle(body, lookupOk, t) ==
    IF Falsy(body.x402Version) \/ Falsy(body.paymentHeader)
       \/ Falsy(body.paymentRequirements)
    THEN Response(400, [success |-> FALSE, error |-> MissingFields])
    ELSE Response(200,
             SettleRejected(Facilitator_verifyPayment(ServiceArgs(body), lookupOk, t).result))

\* The middleware stack: express.json hands a body it cannot parse to the
\* error handler, skipping every route; POST /verify and POST /settle have
\* handlers; whatever no route answers reaches the 404 handler.
HandleRequest(request, lookupOk, t) ==
    IF ~request.body.parses THEN errorHandler
    ELSE IF request.method = "POST" /\ request.path = "/verify"
    THEN PostVerify(request.body, lookupOk, t)
    ELSE IF request.method = "POST" /\ request.path = "/settle"
    THEN PostSettle(request.body, lookupOk, t)
    ELSE NotFound

\* The bodies posted: malformed text, or an object whose members are each
\* absent, falsy or given; the payment is the SOL payment, the payment one
\* lamport short, or a header that is no JSON.
BodiesTried ==
    {MalformedBody} \cup
    { JsonBody(version, header, requirement) :
        version \in {Omitted, JsonNumber(0), JsonNumber(X402_VERSION),
                     JsonNumber(X402_VERSION + 1)},
        header \in {Omitted, JsonString(EmptyString), JsonString(Header(PaySol)),
                    JsonString(Header(PayUnder("n1"))), JsonString(GarbageHeader)},
        requirement \in {Omitted, JsonObject(ReqSol)} }

\* The body has the three members and the service verifies its payment at
\* the start of the run.
Verifies(body) ==
    /\ body.parses
    /\ ~Falsy(body.x402Version) /\ ~Falsy(body.paymentHeader)
    /\ ~Falsy(body.paymentRequirements)
    /\ Facilitator_verifyPayment(ServiceArgs(body), TRUE, StartNow).result.isValid

\* The requests sent: GET or POST of /verify, /settle or a path without
\* route; /settle of a payment that verifies is the request machine above.
HttpRequestDrawn ==
    \E method \in {"GET", "POST"}, path \in {"/verify", "/settle", "/nowhere"},
       body \in BodiesTried :
        /\ ~(method = "POST" /\ path = "/settle" /\ Verifies(body))
        /\ call = [op |-> "http", request |-> [method |-> method, path |-> path,
                                               body |-> body]]

VerifyInit ==
    /\ rq = [r \in Reqs |-> IdleRequest]
    /\ chain = [n \in SOLANA_NETWORKS |-> [s \in Sigs |-> "absent"]]
    /\ now = StartNow
    /\ offered = {}
    /\ initializeSchemes
    /\ \/ ArgsDrawn
       \/ RequirementDrawn
       \/ HeaderDrawn
       \/ HttpRequestDrawn
       \/ SettleArgsDrawn
       \/ StatusArgsDrawn

\* scheme.verifyPayment(paymentPayload, requirement) of a transfer engine
CallTransferVerify ==
    /\ call.op = "args"
    /\ call.body.paymentHeader.isJson
    /\ call' = Returned("Transfer.verifyPayment", call.body, TRUE,
                   Outcome(Transfer_verifyPayment(
                               decodePaymentPayload(call.body.paymentHeader).value,
                               call.body.paymentRequirements, now),
                           TRUE, SolDecimals, 0))
    /\ UNCHANGED <<rq, chain, now, offered, transferSchemes, splSchemes>>

\* scheme.verifyPayment(paymentPayload, requirement, tokenDecimals) of an SPL
\* engine
CallSPLVerify ==
    /\ call.op = "args"
    /\ call.body.paymentHeader.isJson
    /\ \E d \in DecimalsTried :
          call' = Returned("SPL.verifyPayment", call.body, TRUE,
                      Outcome(SPL_verifyPayment(
                                  decodePaymentPayload(call.body.paymentHeader).value,
                                  call.body.paymentRequirements, d, now),
                              TRUE, d, 0))
    /\ UNCHANGED <<rq, chain, now, offered, transferSchemes, splSchemes>>

\* facilitatorService.verifyPayment(x402Version, paymentHeader,
\* paymentRequirements)
CallFacilitatorVerify ==
    /\ call.op = "args"
    /\ \E lookupOk \in MintLookupOutcomes(call.body.paymentRequirements.asset) :
          call' = Returned("Facilitator.verifyPayment", call.body, lookupOk,
                      Facilitator_verifyPayment(call.body, lookupOk, now))
    /\ UNCHANGED <<rq, chain, now, offered, transferSchemes, splSchemes>>

\* facilitatorService.getSupportedSchemes()
CallSupported ==
    /\ call.op = "args"
    /\ call' = [op |-> "getSupportedSchemes", body |-> call.body,
                kinds |-> getSupportedSchemes]
    /\ UNCHANGED <<rq, chain, now, offered, transferSchemes, splSchemes>>

\* validatePaymentRequirement(requirement)
CallValidate ==
    /\ call.op = "requirement"
    /\ call' = [op |-> "validatePaymentRequirement",
                requirement |-> call.requirement,
                result |-> validatePaymentRequirement(call.requirement)]
    /\ UNCHANGED <<rq, chain, now, offered, transferSchemes, splSchemes>>

\* decodePaymentPayload(encodePaymentPayload(p)) for the payload of the
\* arguments, its amount a string, a BigInt or NaN
CallDecodeEncode ==
    /\ call.op = "args"
    /\ call.body.paymentHeader.isJson
    /\ \E amount \in {call.body.paymentHeader.json.payload.amount, BigIntAmount, NaNAmount} :
          LET p == [call.body.paymentHeader.json EXCEPT !.payload.amount = amount]
              encoded == encodePaymentPayload(p)
          IN  call' = [op |-> "decode(encode)", body |-> call.body, p |-> p,
                       encoded |-> encoded,
                       decoded |-> IF encoded.threw THEN encoded
                                   ELSE decodePaymentPayload(encoded.header)]
    /\ UNCHANGED <<rq, chain, now, offered, transferSchemes, splSchemes>>

\* decodePaymentPayload(encoded)
CallDecode ==
    /\ call.op = "header"
    /\ call' = [op |-> "decodePaymentPayload", header |-> call.header,
                result |-> decodePaymentPayload(call.header)]
    /\ UNCHANGED <<rq, chain, now, offered, transferSchemes, splSchemes>>

\* The values given to mint, fromTokenAccount and toTokenAccount of a
\* transfer payload: those of an SPL payment, or strings that are no keys.
TokenFieldsTried ==
    { [mint |-> OtherMint,
       fromTokenAccount |-> getAssociatedTokenAddress(OtherMint, Alice),
       toTokenAccount |-> getAssociatedTokenAddress(OtherMint, PayTo)],
      [mint |-> BadAddress, fromTokenAccount |-> BadAddress, toTokenAccount |-> Null] }

WithTokenFields(body, f) ==
    [body EXCEPT !.paymentHeader.json.payload.mint = f.mint,
                 !.paymentHeader.json.payload.fromTokenAccount = f.fromTokenAccount,
                 !.paymentHeader.json.payload.toTokenAccount = f.toTokenAccount]

\* A solana-transfer payload verified twice, by the engine and by the
\* facilitator: as it is, and with mint and token accounts added to it.
CallTransferVerifyTwice ==
    /\ call.op = "args"
    /\ call.body.paymentHeader.isJson
    /\ call.body.paymentHeader.json.scheme = TRANSFER
    /\ \E f \in TokenFieldsTried :
          LET other == WithTokenFields(call.body, f) IN
          call' = [op |-> "verifyPayment twice", body |-> call.body, other |-> other,
                   engine |->
                       Transfer_verifyPayment(call.body.paymentHeader.json,
                                              call.body.paymentRequirements, now),
                   engineOther |->
                       Transfer_verifyPayment(other.paymentHeader.json,
                                              other.paymentRequirements, now),
                   facilitator |-> Facilitator_verifyPayment(call.body, TRUE, now),
                   facilitatorOther |-> Facilitator_verifyPayment(other, TRUE, now)]
    /\ UNCHANGED <<rq, chain, now, offered, transferSchemes, splSchemes>>

\* One HTTP request answered by the application.
CallHttp ==
    /\ call.op = "http"
    /\ call' = [op |-> "http response", request |-> call.request,
                response |-> HandleRequest(call.request, TRUE, now)]
    /\ UNCHANGED <<rq, chain, now, offered, transferSchemes, splSchemes>>

\* facilitatorService.settlePayment(x402Version, paymentHeader,
\* paymentRequirements)
CallFacilitatorSettle ==
    /\ call.op = "settle args"
    /\ call' = [op |-> "Facilitator.settlePayment", body |-> call.body,
                rpc |-> call.rpc,
                outcome |-> Facilitator_settlePayment(call.body, call.rpc, now)]
    /\ UNCHANGED <<rq, chain, now, offered, transferSchemes, splSchemes>>

\* facilitatorService.getTransactionStatus(signature, network)
CallTransactionStatus ==
    /\ call.op = "status args"
    /\ call' = [op |-> "Facilitator.getTransactionStatus", network |-> call.network,
                status |-> call.status,
                result |-> Facilitator_getTransactionStatus(call.network, call.status)]
    /\ UNCHANGED <<rq, chain, now, offered, transferSchemes, splSchemes>>

VerifyNext ==
    \/ CallTransferVerify
    \/ CallSPLVerify
    \/ CallFacilitatorVerify
    \/ CallSupported
    \/ CallValidate
    \/ CallDecodeEncode
    \/ CallDecode
    \/ CallTransferVerifyTwice
    \/ CallHttp
    \/ CallFacilitatorSettle
    \/ CallTransactionStatus

VerifySpec == VerifyInit /\ [][VerifyNext]_vars

\* ------------------------------------------ the example resource server
\* req.headers['x-payment'] of a request that has no such header
NoPaymentHeader == [isJson |-> FALSE, json |-> [text |-> "undefined"]]

\* null: no requirement matches the payload's scheme
NoRequirement == [scheme |-> Null]

\* createSolTransferRequirement(PAYMENT_ADDRESS, amount, ..., 'solana-devnet')
createSolTransferRequirement(amount) ==
    Requirement(TRANSFER, "solana-devnet", amount, "SOL")

\* createSplTransferRequirement(PAYMENT_ADDRESS, amount, mint, ...,
\* 'solana-devnet')
createSplTransferRequirement(amount, mint) ==
    Requirement(SPL, "solana-devnet", amount, mint)

\* The accepts list of a request without payment: the SOL requirement when
\* acceptSOL, then the USDC requirement when acceptUSDC.
Advertised(endpoint) ==
    (IF endpoint.acceptSOL THEN <<createSolTransferRequirement(endpoint.amount)>>
     ELSE <<>>)
    \o (IF endpoint.acceptUSDC
        THEN <<createSplTransferRequirement(endpoint.amount, USDC_MINT_DEVNET)>>
        ELSE <<>>)

\* "Find matching requirement"
MatchingRequirement(pp, endpoint) ==
    IF endpoint.acceptSOL /\ pp.scheme = TRANSFER
    THEN createSolTransferRequirement(endpoint.amount)
    ELSE IF endpoint.acceptUSDC /\ pp.scheme = SPL
    THEN createSplTransferRequirement(endpoint.amount, USDC_MINT_DEVNET)
    ELSE NoRequirement

\* res.status(402).json({ x402Version: 1, accepts, error })
PaymentRequired(accepts, error) ==
    [status |-> 402, body |-> [x402Version |-> X402_VERSION, accepts |-> accepts,
                               error |-> error]]

\* catch (error): res.status(500).json({ error: 'Payment processing failed' })
ProcessingFailed ==
    [status |-> 500, body |-> [x402Version |-> X402_VERSION, accepts |-> <<>>,
                               error |-> "Payment processing failed"]]

\* the header X-PAYMENT-RESPONSE is not set
NoPaymentResponse == [success |-> FALSE, txHash |-> NoSig, networkId |-> Null]

\* the protected handler's answer
Served ==
    [status |-> 200, body |-> [x402Version |-> X402_VERSION, accepts |-> <<>>,
                               error |-> Null]]

\* A bug: a negative verification does not end the request.
AfterVerify_settleAnyway(data) == "settle"

\* if (!verifyResponse.data.isValid) return res.status(402)...
AfterVerify(data) == IF data.isValid THEN "settle" ELSE "refuse"

\* The body the resource server posts to the facilitator.
FacilitatorBody == Input(X402_VERSION, call.header, call.requirement)

\* the facilitator was called: what was posted where, and what it answered
Exchange(path, data) == [path |-> path, body |-> FacilitatorBody, data |-> data]

Respond(response) == call' = [call EXCEPT !.pc = "done", !.response = response]

\* The USDC payment of 0.01 USDC on devnet.
PayUsdcDevnet ==
    PaymentPayload(SPL, "solana-devnet",
        SplPayload(USDC_MINT_DEVNET,
                   Lamports(toAtomicUnits([mant |-> 1, exp |-> 2], UsdcDecimals)),
                   StartNow))

\* A request for a paid endpoint arrives: without X-Payment header, with a
\* header that is no JSON, or with a SOL payment (valid, or one lamport
\* short), a USDC payment, a payment in another token or a payment under
\* another scheme. The endpoint asks 0.01 and accepts SOL, USDC, both or none.
ResourceInit ==
    /\ rq = [r \in Reqs |-> IdleRequest]
    /\ chain = [n \in SOLANA_NETWORKS |-> [s \in Sigs |-> "absent"]]
    /\ now = StartNow
    /\ offered = {}
    /\ initializeSchemes
    /\ \E header \in {NoPaymentHeader, GarbageHeader, Header(PaySol),
                       Header(PayUnder("n1")), Header(PayUsdcDevnet),
                       Header(PayTok), Header(PayElsewhere(OtherScheme, "solana-devnet"))},
          acceptSOL \in BOOLEAN, acceptUSDC \in BOOLEAN :
          call = [op |-> "requirePayment", pc |-> "received", header |-> header,
                  endpoint |-> [amount |-> [mant |-> 1, exp |-> 2],
                                acceptSOL |-> acceptSOL, acceptUSDC |-> acceptUSDC],
                  requirement |-> NoRequirement, exchanges |-> <<>>,
                  paymentResponse |-> NoPaymentResponse, nextCalled |-> FALSE,
                  response |-> NoResponse]

\* requirePayment up to the first call of the facilitator: 402 with the
\* accepts list when there is no header; 500 when the header does not
\* decode; 402 with an empty list when no requirement matches its scheme.
Receive ==
    /\ call.pc = "received"
    /\ IF call.header = NoPaymentHeader
       THEN Respond(PaymentRequired(Advertised(call.endpoint),
                                    "Payment required to access this resource"))
       ELSE IF decodePaymentPayload(call.header).threw
       THEN Respond(ProcessingFailed)
       ELSE LET requirement ==
                    MatchingRequirement(decodePaymentPayload(call.header).value,
                                        call.endpoint)
            IN  IF requirement = NoRequirement
                THEN Respond(PaymentRequired(<<>>, "Unsupported payment scheme"))
                ELSE call' = [call EXCEPT !.pc = "verify", !.requirement = requirement]
    /\ UNCHANGED <<rq, chain, now, offered, transferSchemes, splSchemes>>

\* axios.post(`${facilitatorUrl}/verify`, ...): the facilitator answers with
\* its verification, or the call throws (no answer, or a status that is not
\* 2xx).
PostToVerify ==
    /\ call.pc = "verify"
    /\ \/ Respond(ProcessingFailed)
       \/ LET data == Facilitator_verifyPayment(FacilitatorBody, TRUE, now).result
              rec == [call EXCEPT !.exchanges = Append(@, Exchange("/verify", data))]
          IN  IF AfterVerify(data) = "refuse"
              THEN call' = [rec EXCEPT !.pc = "done",
                       !.response =
                           PaymentRequired(<<call.requirement>>,
                               "Payment verification failed: " \o data.invalidReason)]
              ELSE call' = [rec EXCEPT !.pc = "settle"]
    /\ UNCHANGED <<rq, chain, now, offered, transferSchemes, splSchemes>>

\* axios.post(`${facilitatorUrl}/settle`, ...): the facilitator answers with
\* its settlement, or the call throws; on success the header
\* X-PAYMENT-RESPONSE is set and next() called.
PostToSettle ==
    /\ call.pc = "settle"
    /\ \/ Respond(ProcessingFailed)
       \/ \E rpc \in RpcBehaviours :
             LET data == Facilitator_settlePayment(FacilitatorBody, rpc, now).result
                 rec == [call EXCEPT !.exchanges = Append(@, Exchange("/settle", data))]
             IN  IF ~data.success
                 THEN call' = [rec EXCEPT !.pc = "done",
                          !.response =
                              PaymentRequired(<<call.requirement>>,
                                  "Payment settlement failed: " \o data.error)]
                 ELSE call' = [rec EXCEPT !.pc = "done", !.nextCalled = TRUE,
                          !.paymentResponse =
                              [success |-> TRUE, txHash |-> data.txHash,
                               networkId |-> data.networkId],
                          !.response = Served]
    /\ UNCHANGED <<rq, chain, now, offered, transferSchemes, splSchemes>>

ResourceNext ==
    \/ Receive
    \/ PostToVerify
    \/ PostToSettle
    \/ Tick

ResourceSpec == ResourceInit /\ [][ResourceNext]_vars

\* ------------------------------------------------------------- rateLimit
\* req.ip of the requests ('unknown' when the request has none)
Clients == {"10.0.0.1", "unknown"}

\* requests.get(clientId) when the map has no entry
NoRecord == [present |-> FALSE, count |-> 0, resetTime |-> 0]
ClientRecord(count, resetTime) ==
    [present |-> TRUE, count |-> count, resetTime |-> resetTime]

\* Math.ceil(ms / 1000)
CeilSeconds(ms) ==
    IF ms > 0 THEN (ms + 999) \div 1000 ELSE 0 - ((0 - ms) \div 1000)

\* "Clean up old entries": entries with resetTime < now - windowMs are deleted
CleanedUp(requests, t, windowMs) ==
    [k \in Clients |->
        IF requests[k].present /\ requests[k].resetTime < t - windowMs
        THEN NoRecord ELSE requests[k]]

\* "Get or create client record", on the cleaned map
RecordFor(requests, clientId, t, windowMs) ==
    IF ~requests[clientId].present \/ requests[clientId].resetTime < t - windowMs
    THEN ClientRecord(0, t + windowMs)
    ELSE requests[clientId]

\* A bug: the request that finds count = maxRequests still passes.
Admitted_offByOne(record, maxRequests) == record.count <= maxRequests

\* "Check rate limit": the request passes unless count >= maxRequests
Admitted(record, maxRequests) == record.count < maxRequests

\* What the middleware did with the last request: whose it was and when, the
\* record it found or created, the record it left, and either the 429 with
\* its retryAfter or next().
NoRequest ==
    [client |-> Null, time |-> 0, found |-> NoRecord, left |-> NoRecord,
     status |-> 0, retryAfter |-> 0, nextCalled |-> FALSE]

\* rateLimit(windowMs, maxRequests): an empty map.
RateLimitInit ==
    /\ rq = [r \in Reqs |-> IdleRequest]
    /\ chain = [n \in SOLANA_NETWORKS |-> [s \in Sigs |-> "absent"]]
    /\ now = StartNow
    /\ offered = {}
    /\ initializeSchemes
    /\ \E windowMs \in {1, 2}, maxRequests \in {0, 1, 2} :
          call = [op |-> "rateLimit", windowMs |-> windowMs,
                  maxRequests |-> maxRequests,
                  requests |-> [k \in Clients |-> NoRecord],
                  last |-> NoRequest]

\* The middleware handles a request of clientId at Date.now() = now.
LimitRequest(clientId) ==
    LET cleaned == CleanedUp(call.requests, now, call.windowMs)
        record == RecordFor(cleaned, clientId, now, call.windowMs)
    IN  /\ call.op = "rateLimit"
        /\ IF Admitted(record, call.maxRequests)
           THEN LET counted == ClientRecord(record.count + 1, record.resetTime) IN
                call' = [call EXCEPT
                            !.requests = [cleaned EXCEPT ![clientId] = counted],
                            !.last = [client |-> clientId, time |-> now,
                                      found |-> record, left |-> counted,
                                      status |-> 200, retryAfter |-> 0,
                                      nextCalled |-> TRUE]]
           ELSE call' = [call EXCEPT
                            !.requests = [cleaned EXCEPT ![clientId] = record],
                            !.last = [client |-> clientId, time |-> now,
                                      found |-> record, left |-> record,
                                      status |-> 429,
                                      retryAfter |-> CeilSeconds(record.resetTime - now),
                                      nextCalled |-> FALSE]]
        /\ UNCHANGED <<rq, chain, now, offered, transferSchemes, splSchemes>>

\* A millisecond passes.
ClockTick ==
    /\ call.op = "rateLimit"
    /\ now < StartNow + MaxClock
    /\ now' = now + 1
    /\ UNCHANGED <<rq, chain, offered, transferSchemes, splSchemes, call>>

RateLimitNext ==
    \/ \E clientId \in Clients : LimitRequest(clientId)
    \/ ClockTick

RateLimitSpec == RateLimitInit /\ [][RateLimitNext]_vars

\* ------------------------------------------------------------ observations
Done(r) == rq[r].pc = "done"
IsSettle(r) == rq[r].kind = "settle"
IsVerify(r) == rq[r].kind = "verify"

Count(seq, x) == Cardinality({k \in DOMAIN seq : seq[k] = x})
Has(r, name) == Count(rq[r].calls, name) > 0
LastCall(r) == IF rq[r].calls = <<>> THEN Null ELSE rq[r].calls[Len(rq[r].calls)]

\* The calls the engine's settlePayment made (the decimals lookups are the
\* facilitator's).
IsEngineCall(name) == name # "getParsedAccountInfo"
EngineCalls(r) == SelectSeq(rq[r].calls, IsEngineCall)

\* A verification of request r returned isValid = false / every verification
\* of a /settle request returned isValid = true.
VerificationFailed(r) ==
    rq[r].fres.invalidReason # Null \/ rq[r].eres.invalidReason # Null
VerificationPassed(r) == rq[r].fres.isValid /\ rq[r].eres.isValid
FailureReason(r) ==
    IF rq[r].fres.invalidReason # Null THEN rq[r].fres.invalidReason
    ELSE rq[r].eres.invalidReason

RECURSIVE SumOver(_, _)
SumOver(S, name) ==
    IF S = {} THEN 0
    ELSE LET r == CHOOSE x \in S : TRUE
         IN  Count(rq[r].calls, name) + SumOver(S \ {r}, name)

\* ------------------------------------------------------------------ claims
\* C1: a /settle of p that succeeded, followed by a second /settle of the
\* same p (which again passes verification), yields the same txHash on both
\* calls.
C1_SettleIdempotent ==
    \A r \in Reqs : \A q \in rq[r].prior :
        (Done(r) /\ VerificationPassed(r)) =>
            /\ rq[r].resp.success
            /\ rq[r].resp.txHash = rq[q].resp.txHash

\* C2: over any sequence or interleaving of /settle requests carrying the
\* same payment header, sendRawTransaction is called at most once for that
\* payment.
C2_NeverSubmitTwice ==
    \A i \in InputIds :
        SumOver({r \in Reqs : rq[r].inp = i}, "sendRawTransaction") <= 1

\* C3: when the idempotency probe finds the transaction on chain, settle is
\* finished with success=true and txHash = payload.signature, and the probe
\* is the request's last chain call.
C3_ProbeHitIsSuccess ==
    \A r \in Reqs :
        rq[r].txInfo =>
            /\ Done(r)
            /\ rq[r].resp.success
            /\ rq[r].resp.error = Null
            /\ rq[r].resp.txHash = PayloadOf(r).payload.signature
            /\ EngineCalls(r) = <<"getTransaction">>

C3_Witness ==
    \E r \in Reqs :
        /\ rq[r].txInfo
        /\ Done(r)
        /\ PayloadOf(r).scheme = SPL
        /\ chain[NetworkOf(r)][PayloadOf(r).payload.signature] = "confirmed"

\* C4: settle returns success=true after a submission only when the
\* submitted signature reached confirmed commitment without a transaction
\* error; a transaction that failed on chain gives success=false.
C4_SuccessOnlyWhenConfirmed ==
    \A r \in Reqs :
        (Done(r) /\ IsSettle(r) /\ Has(r, "sendRawTransaction") /\ rq[r].resp.success) =>
            chain[NetworkOf(r)][rq[r].resp.txHash] = "confirmed"

\* The chain-facing steps of the engine's settlePayment, in source order.
SettleSteps(scheme) ==
    IF scheme = SPL
    THEN <<"getTransaction", "getAccount", "getLatestBlockhash",
           "sendRawTransaction", "confirmTransaction">>
    ELSE <<"getTransaction", "getLatestBlockhash",
           "sendRawTransaction", "confirmTransaction">>

IsPrefix(a, b) == Len(a) <= Len(b) /\ a = SubSeq(b, 1, Len(a))

\* C5: within one /settle request the steps happen in the order verify,
\* idempotency probe, (SPL only) recipient-ATA probe, blockhash fetch, submit,
\* confirm: the engine's calls are an initial part of that sequence, none is
\* made before both verifications passed, the facilitator's decimals lookups
\* all precede them, and a confirmed submission went through all of them.
C5_StepOrder ==
    \A r \in Reqs :
        LET e == EngineCalls(r) IN
        e # <<>> =>
            /\ IsSettle(r)
            /\ VerificationPassed(r)
            /\ IsPrefix(e, SettleSteps(PayloadOf(r).scheme))
            /\ rq[r].calls = SubSeq(rq[r].calls, 1, Len(rq[r].calls) - Len(e)) \o e
            /\ \A k \in 1..(Len(rq[r].calls) - Len(e)) :
                    rq[r].calls[k] = "getParsedAccountInfo"
            /\ (Done(r) /\ rq[r].resp.success /\ ~rq[r].txInfo) =>
                    e = SettleSteps(PayloadOf(r).scheme)

C5_Witness ==
    \E r \in Reqs :
        /\ IsSettle(r) /\ Done(r) /\ rq[r].resp.success /\ ~rq[r].txInfo
        /\ PayloadOf(r).scheme = SPL
        /\ Len(rq[r].calls) > Len(SettleSteps(SPL))

\* C6: whenever verification fails, at the facilitator or in the engine,
\* /settle returns success=false with error equal to the verification's
\* invalidReason and txHash=null, and the request makes no getTransaction,
\* getLatestBlockhash, sendRawTransaction or confirmTransaction call.
C6_RejectedBeforeChain ==
    \A r \in Reqs :
        (IsSettle(r) /\ VerificationFailed(r)) =>
            /\ Done(r)
            /\ ~rq[r].resp.success
            /\ rq[r].resp.error = FailureReason(r)
            /\ rq[r].resp.txHash = NoSig
            /\ EngineCalls(r) = <<>>

\* the engine's own re-verification is the one that failed
C6_Witness ==
    \E r \in Reqs :
        /\ IsSettle(r) /\ Done(r)
        /\ rq[r].fres.isValid
        /\ rq[r].eres.invalidReason = "Payment payload expired"

\* C7: a settlement whose sendRawTransaction was accepted but whose
\* confirmation then failed returns success=false together with the txHash of
\* the attempted submission.
C7_FailedConfirmKeepsTxHash ==
    \A r \in Reqs :
        (Done(r) /\ rq[r].sig # NoSig /\ ~rq[r].resp.success) =>
            rq[r].resp.txHash = rq[r].sig

\* C8: a finished /settle request is in exactly one of Rejected (a
\* verification returned false), Settled (success=true) and Failed
\* (success=false after verification passed); a request that is not finished
\* can take its next step; and within one request no chain step of settle is
\* made twice.
Rejected(r) == ~rq[r].resp.success /\ VerificationFailed(r)
Settled(r) == rq[r].resp.success /\ VerificationPassed(r)
Failed(r) == ~rq[r].resp.success /\ VerificationPassed(r)

C8_OneTerminalStateNoRetry ==
    \A r \in Reqs :
        /\ (Done(r) /\ IsSettle(r)) =>
              /\ Rejected(r) \/ Settled(r) \/ Failed(r)
              /\ ~(Rejected(r) /\ Failed(r))
              /\ rq[r].resp.success => ~VerificationFailed(r)
        /\ rq[r].pc \notin {"idle", "done"} => ENABLED Step(r)
        /\ \A name \in {"getTransaction", "getAccount", "getLatestBlockhash",
                        "sendRawTransaction", "confirmTransaction"} :
              Count(rq[r].calls, name) <= 1

\* a submission failed or was not confirmed, and the request is over
C8_Witness ==
    \E r \in Reqs :
        /\ IsSettle(r) /\ Done(r) /\ Failed(r)
        /\ LastCall(r) \in {"sendRawTransaction", "confirmTransaction"}

\* Every verdict a verification has returned so far, with the request body and
\* the token decimals it was computed from: FacilitatorService.verifyPayment
\* (fres) and the engine's re-verification inside settlePayment (eres).
Verdicts ==
    { [inp |-> rq[r].inp, dec |-> rq[r].dec, res |-> rq[r].fres] :
        r \in {q \in Reqs : rq[q].pc \notin {"idle", "verify", "decimals"}} }
    \cup
    { [inp |-> rq[r].inp, dec |-> rq[r].sdec, res |-> rq[r].eres] :
        r \in {q \in Reqs : rq[q].eres # NoVerdict} }

\* Two request bodies that are identical, or differ in the payload's nonce
\* only.
SameButNonce(i, j) ==
    LET a == Inputs[i]
        b == Inputs[j]
    IN  /\ a.x402Version = b.x402Version
        /\ a.paymentRequirements = b.paymentRequirements
        /\ a.paymentHeader.isJson = b.paymentHeader.isJson
        /\ a.paymentHeader.isJson =>
              [a.paymentHeader.json EXCEPT !.payload.nonce = Null]
                = [b.paymentHeader.json EXCEPT !.payload.nonce = Null]

Expired == Invalid("Payment payload expired")

\* C9 as stated: verification with identical payment header and requirement
\* yields identical {isValid, invalidReason}, whatever the nonce, the earlier
\* requests and the requests in flight.
C9_SameInputSameVerdict ==
    \A v \in Verdicts, w \in Verdicts :
        SameButNonce(v.inp, w.inp) => v.res = w.res

\* C9 amended: with identical header and requirement and the same resolved
\* token decimals, two verdicts are identical unless the payload expired
\* between the two clock readings; the nonce, earlier requests and requests in
\* flight have no influence.
C9_VerdictFromInputDecimalsClock ==
    \A v \in Verdicts, w \in Verdicts :
        (SameButNonce(v.inp, w.inp) /\ v.dec = w.dec) =>
            \/ v.res = w.res
            \/ {v.res, w.res} = {Valid, Expired}

\* two requests whose payloads differ in the nonce only, both verified with
\* the same verdict
C9_Witness ==
    \E r \in Reqs, q \in Reqs :
        /\ Done(r) /\ Done(q)
        /\ rq[r].inp # rq[q].inp
        /\ SameButNonce(rq[r].inp, rq[q].inp)
        /\ rq[r].fres = rq[q].fres
        /\ rq[r].fres.invalidReason = "Insufficient payment amount"

\* C10: a /verify request never writes to the chain and reads it at most
\* once: no call at all for a solana-transfer payment or a USDC mint, at most
\* one decimals lookup otherwise.
C10_VerifyReadsAtMostOnce ==
    \A r \in Reqs :
        IsVerify(r) =>
            /\ \A k \in DOMAIN rq[r].calls : rq[r].calls[k] = "getParsedAccountInfo"
            /\ Len(rq[r].calls) <= 1
            /\ RequirementOf(r).scheme = TRANSFER => rq[r].calls = <<>>
            /\ RequirementOf(r).asset \in {USDC_MINT_MAINNET, USDC_MINT_DEVNET}
                  => rq[r].calls = <<>>

\* an SPL payment of an unlisted mint verified valid after one lookup
C10_Witness ==
    \E r \in Reqs :
        /\ IsVerify(r) /\ Done(r)
        /\ rq[r].resp.isValid
        /\ rq[r].calls = <<"getParsedAccountInfo">>

\* C11: a /settle request that reaches confirmation has made between 3 and 5
\* calls of the engine's settlePayment (probe, blockhash, submit, confirm and
\* at most one recipient-ATA probe) and at most one decimals lookup.
C11_ConfirmedSettleCalls ==
    \A r \in Reqs :
        (IsSettle(r) /\ Has(r, "confirmTransaction")) =>
            /\ Len(EngineCalls(r)) \in 3..5
            /\ Count(rq[r].calls, "getAccount") <= 1
            /\ Count(rq[r].calls, "getParsedAccountInfo") <= 1

\* ------------------------------------------- observations of an invocation
Invoked(op) == call.op = op
ArgPayload == call.body.paymentHeader.json
ArgRequirement == call.body.paymentRequirements
Verdict == call.outcome.result
Reason == call.outcome.result.invalidReason

SchemeOrNetworkMismatch ==
    \/ ArgPayload.scheme # ArgRequirement.scheme
    \/ ArgPayload.network # ArgRequirement.network
SignatureTooShort ==
    \/ ArgPayload.payload.signature = NoSig
    \/ ArgPayload.payload.signature.len < 87
SignatureWellFormed == ArgPayload.payload.signature.len \in 87..88
AddressesValid ==
    /\ ArgPayload.payload.from \in ValidAddresses
    /\ ArgRequirement.payTo \in ValidAddresses
OwnersOnCurve ==
    /\ ArgPayload.payload.from # OffCurve
    /\ ArgRequirement.payTo # OffCurve
Underpaid(decimals) ==
    /\ ArgPayload.payload.amount.isInteger
    /\ ArgPayload.payload.amount.value
          < toAtomicUnits(ArgRequirement.maxAmountRequired, decimals)
PaidInFull(decimals) ==
    /\ ArgPayload.payload.amount.isInteger
    /\ ArgPayload.payload.amount.value
          >= toAtomicUnits(ArgRequirement.maxAmountRequired, decimals)
Age == now - ArgPayload.payload.timestamp

\* C12: transfer verification reports the first failing check in the order
\* scheme/network mismatch, signature format, amount, freshness: at the
\* facilitator, a payload whose scheme or network differs from the
\* requirement's gets a mismatch reason whatever else is wrong with it; at the
\* engine (and at the facilitator once scheme and network match and the
\* network has an engine) a short signature is reported before an underpaid
\* amount, and an underpaid amount before an expired timestamp.
C12_FirstFailingCheckReported ==
    /\ (/\ Invoked("Facilitator.verifyPayment")
        /\ call.body.x402Version = 1 /\ call.body.paymentHeader.isJson
        /\ ArgRequirement.scheme = TRANSFER)
       => /\ ArgPayload.scheme # ArgRequirement.scheme
                => Reason = "Payment scheme mismatch"
          /\ (ArgPayload.scheme = ArgRequirement.scheme
                /\ ArgPayload.network # ArgRequirement.network)
                => Reason = "Payment network mismatch"
    /\ (/\ \/ Invoked("Transfer.verifyPayment") /\ ArgPayload.scheme = TRANSFER
           \/ /\ Invoked("Facilitator.verifyPayment")
              /\ call.body.x402Version = 1 /\ call.body.paymentHeader.isJson
              /\ ArgRequirement.scheme = TRANSFER
              /\ ~SchemeOrNetworkMismatch
              /\ ArgRequirement.network \in {"solana-mainnet", "solana-devnet"})
       => /\ SignatureTooShort => Reason = "Invalid signature format"
          /\ (SignatureWellFormed /\ AddressesValid /\ Underpaid(9))
                => Reason = "Insufficient payment amount"
          /\ (SignatureWellFormed /\ AddressesValid /\ PaidInFull(9) /\ Age > 300000)
                => Reason = "Payment payload expired"

\* the facilitator verified a transfer payload with the wrong network, a short
\* signature, too small an amount and an old timestamp
C12_Witness ==
    /\ Invoked("Facilitator.verifyPayment")
    /\ call.body.x402Version = 1 /\ call.body.paymentHeader.isJson
    /\ ArgRequirement.scheme = TRANSFER
    /\ ArgPayload.scheme = TRANSFER
    /\ ArgPayload.network # ArgRequirement.network
    /\ SignatureTooShort /\ Underpaid(9) /\ Age > 300000
    /\ Reason = "Payment network mismatch"

\* C13: the engines accept a signature only if its length is 87 or 88: a
\* missing signature and one of any other length get the reason 'Invalid
\* signature format', and no payload with such a signature is found valid.
C13_SignatureLengthWindow ==
    (\/ Invoked("Transfer.verifyPayment") /\ ArgPayload.scheme = TRANSFER
     \/ Invoked("SPL.verifyPayment") /\ ArgPayload.scheme = SPL)
    => /\ ~SignatureWellFormed => Reason = "Invalid signature format"
       /\ Verdict.isValid => SignatureWellFormed

\* The invocation is one of an engine's verifyPayment and every check that
\* comes before the amount check passes.
AmountCheckReached ==
    /\ ~SignatureTooShort
    /\ AddressesValid
    /\ ArgPayload.payload.amount.isInteger
    /\ \/ Invoked("Transfer.verifyPayment") /\ ArgPayload.scheme = TRANSFER
       \/ /\ Invoked("SPL.verifyPayment") /\ ArgPayload.scheme = SPL
          /\ ArgPayload.payload.mint = ArgRequirement.asset
          /\ OwnersOnCurve
          /\ ArgPayload.payload.fromTokenAccount
                = getAssociatedTokenAddress(ArgPayload.payload.mint, ArgPayload.payload.from)
          /\ ArgPayload.payload.toTokenAccount
                = getAssociatedTokenAddress(ArgPayload.payload.mint, ArgRequirement.payTo)

\* The requirement's maxAmountRequired in atomic units, under the decimals
\* the invocation used.
RequiredAtomic == ExactUnits(ArgRequirement.maxAmountRequired, call.outcome.decimals)

\* C14: an amount of at least the required number of atomic units passes the
\* amount check, and an amount one unit below it fails with 'Insufficient
\* payment amount'.
C14_AmountThreshold ==
    ((Invoked("Transfer.verifyPayment") \/ Invoked("SPL.verifyPayment"))
        /\ AmountCheckReached)
    => /\ ArgPayload.payload.amount.value >= RequiredAtomic
             => Reason # "Insufficient payment amount"
       /\ ArgPayload.payload.amount.value = RequiredAtomic - 1
             => Reason = "Insufficient payment amount"

\* The age of request r's payload at the present clock reading.
AgeOf(r) == now - PayloadOf(r).payload.timestamp

\* Request r's body passes every check of verification other than the
\* freshness check, the amount being compared under `decimals`.
OtherChecksPass(r, decimals) ==
    LET in == InputOf(r)
        pp == in.paymentHeader.json
        requirement == in.paymentRequirements
    IN  /\ in.x402Version = 1
        /\ in.paymentHeader.isJson
        /\ pp.scheme = requirement.scheme /\ pp.network = requirement.network
        /\ pp.scheme \in {TRANSFER, SPL}
        /\ pp.network \in {"solana-mainnet", "solana-devnet"}
        /\ pp.payload.signature.len >= 87
        /\ pp.payload.from \in ValidAddresses /\ requirement.payTo \in ValidAddresses
        /\ pp.scheme = SPL =>
              /\ pp.payload.mint = requirement.asset
              /\ pp.payload.fromTokenAccount
                    = getAssociatedTokenAddress(pp.payload.mint, pp.payload.from)
              /\ pp.payload.toTokenAccount
                    = getAssociatedTokenAddress(pp.payload.mint, requirement.payTo)
        /\ pp.payload.amount.isInteger
        /\ pp.payload.amount.value >= toAtomicUnits(requirement.maxAmountRequired, decimals)

FreshnessVerdict(r) == IF AgeOf(r) > 300000 THEN Expired ELSE Valid

\* the facilitator's verification of request r returns in this step
FacilitatorVerdictNow(r) ==
    rq[r].pc \in {"verify", "decimals"} /\ rq'[r].pc \notin {"verify", "decimals"}
\* the engine's verification inside settlePayment returns in this step
EngineVerdictNow(r) ==
    rq[r].pc \in {"settle", "sdecimals"} /\ rq'[r].pc \notin {"settle", "sdecimals"}

\* What C15 and its amendment share: a verification whose other checks pass
\* answers 'Payment payload expired' when now - timestamp > 300000 ms and
\* valid when it is 300000 ms or less, so no payload older than five minutes
\* when verification reads the clock is verified valid.
FreshnessChecked(r) ==
    /\ FacilitatorVerdictNow(r) =>
          /\ rq'[r].fres.isValid => AgeOf(r) <= 300000
          /\ OtherChecksPass(r, IF IsSolInput(rq[r].inp) THEN 9 ELSE rq'[r].dec)
                => rq'[r].fres = FreshnessVerdict(r)
    /\ EngineVerdictNow(r) =>
          /\ rq'[r].eres.isValid => AgeOf(r) <= 300000
          /\ OtherChecksPass(r, IF IsSolInput(rq[r].inp) THEN 9 ELSE rq'[r].sdec)
                => rq'[r].eres = FreshnessVerdict(r)

\* C15 as stated: with the other checks passing, verification fails with
\* 'Payment payload expired' when now - timestamp > 300000 ms and passes at
\* exactly 300000 ms; hence no payload older than five minutes is ever
\* verified valid or submitted by settle.
C15_NoOldPayloadVerifiedOrSubmitted ==
    [][\A r \in Reqs :
          /\ FreshnessChecked(r)
          /\ Send(r) => AgeOf(r) <= 300000]_vars

\* C15 amended: with the other checks passing, verification fails with
\* 'Payment payload expired' when now - timestamp > 300000 ms and passes at
\* exactly 300000 ms; hence no payload is verified valid, and none is
\* submitted by settle, unless it was at most five minutes old when the
\* engine's verification read the clock (the submission itself may happen
\* later than that).
C15_FreshWhenVerified ==
    [][\A r \in Reqs :
          /\ FreshnessChecked(r)
          /\ Send(r) => rq[r].eres.isValid]_vars

\* a payload that was exactly five minutes old when the engine verified it
\* has been submitted, and is older than five minutes by now
C15_Witness ==
    \E r \in Reqs :
        /\ IsSettle(r)
        /\ rq[r].eres.isValid
        /\ Has(r, "sendRawTransaction")
        /\ PayloadOf(r).payload.timestamp = StartNow - 300000
        /\ AgeOf(r) > 300000

VerificationInvoked ==
    \/ Invoked("Facilitator.verifyPayment")
    \/ Invoked("Transfer.verifyPayment")
    \/ Invoked("SPL.verifyPayment")

\* C16: every outcome of FacilitatorService.verifyPayment and of the engines'
\* verifyPayment carries a reason exactly when it is negative: isValid=false
\* comes with a non-empty invalidReason, isValid=true with none.
C16_ReasonIffInvalid ==
    VerificationInvoked =>
        /\ Verdict.isValid => Reason = Null
        /\ ~Verdict.isValid => (Reason # Null /\ Reason # "")

\* the facilitator answered a header that is not JSON from its catch block
C16_Witness ==
    /\ Invoked("Facilitator.verifyPayment")
    /\ ~call.body.paymentHeader.isJson
    /\ ~Verdict.isValid
    /\ Reason = "Verification failed: Invalid payment payload encoding"

\* No engine ran and no chain call was made in the invocation.
NothingInvoked == ~call.outcome.engine /\ call.outcome.lookups = 0

\* The (scheme, network) pairs with an engine.
HasEngine(scheme, network) ==
    /\ scheme \in {TRANSFER, SPL}
    /\ network \in {"solana-mainnet", "solana-devnet"}

\* C17: FacilitatorService.verifyPayment, which /verify and /settle both go
\* through, checks in the order x402Version = 1, decode of the header, scheme
\* match, network match, engine lookup, and stops at the first failure; an
\* engine is invoked, and a chain call made, only if all of them pass. A
\* version other than 1 is rejected without decoding the header.
C17_RoutingOrder ==
    Invoked("Facilitator.verifyPayment") =>
        LET versionOk == call.body.x402Version = 1
            decodes == call.body.paymentHeader.isJson
            schemeOk == ArgPayload.scheme = ArgRequirement.scheme
            networkOk == ArgPayload.network = ArgRequirement.network
        IN  /\ ~versionOk => (Reason = "Unsupported x402 version" /\ NothingInvoked)
            /\ (versionOk /\ ~decodes)
                  => /\ Reason = "Verification failed: Invalid payment payload encoding"
                     /\ NothingInvoked
            /\ (versionOk /\ decodes /\ ~schemeOk)
                  => (Reason = "Payment scheme mismatch" /\ NothingInvoked)
            /\ (versionOk /\ decodes /\ schemeOk /\ ~networkOk)
                  => (Reason = "Payment network mismatch" /\ NothingInvoked)
            /\ (versionOk /\ decodes /\ schemeOk /\ networkOk
                  /\ ~HasEngine(ArgPayload.scheme, ArgPayload.network))
                  => NothingInvoked
            /\ ~NothingInvoked
                  => /\ versionOk /\ decodes /\ schemeOk /\ networkOk
                     /\ HasEngine(ArgPayload.scheme, ArgPayload.network)

\* a request of version 2 whose header is not JSON was rejected for its
\* version
C17_Witness ==
    /\ Invoked("Facilitator.verifyPayment")
    /\ call.body.x402Version # 1
    /\ ~call.body.paymentHeader.isJson
    /\ Reason = "Unsupported x402 version"
    /\ NothingInvoked

\* The reason the facilitator gives when request r's scheme and network,
\* equal in payload and requirement, have no engine.
UnsupportedReason(r) ==
    IF RequirementOf(r).scheme \in {TRANSFER, SPL}
    THEN "Unsupported network" ELSE "Unsupported payment scheme"

\* Request r has version 1 and a payload whose scheme and network are those
\* of the requirement, and there is no engine for them.
NoEngineFor(r) ==
    /\ rq[r].pc # "idle"
    /\ InputOf(r).x402Version = 1
    /\ InputOf(r).paymentHeader.isJson
    /\ PayloadOf(r).scheme = RequirementOf(r).scheme
    /\ PayloadOf(r).network = RequirementOf(r).network
    /\ ~HasEngine(PayloadOf(r).scheme, PayloadOf(r).network)

\* C18: a /verify or /settle request whose (scheme, network) pair has no
\* engine is rejected with an unsupported-network or unsupported-scheme
\* reason, is never reported valid or settled, and makes no chain call.
C18_NoEngineRejected ==
    \A r \in Reqs :
        NoEngineFor(r) =>
            /\ rq[r].calls = <<>>
            /\ rq[r].pc \in {"verify", "done"}
            /\ Done(r) =>
                  /\ rq[r].fres = Invalid(UnsupportedReason(r))
                  /\ IsVerify(r) =>
                        /\ ~rq[r].resp.isValid
                        /\ rq[r].resp.invalidReason = UnsupportedReason(r)
                  /\ IsSettle(r) =>
                        /\ ~rq[r].resp.success
                        /\ rq[r].resp.error = UnsupportedReason(r)
                        /\ rq[r].resp.txHash = NoSig

\* a /settle on solana-testnet and a /verify under an unknown scheme have
\* both been answered
C18_Witness ==
    \E r \in Reqs, q \in Reqs :
        /\ NoEngineFor(r) /\ NoEngineFor(q)
        /\ IsSettle(r) /\ Done(r) /\ RequirementOf(r).network = Testnet
        /\ IsVerify(q) /\ Done(q) /\ RequirementOf(q).scheme = OtherScheme

\* The (scheme, network) pairs the registry holds an engine for.
RegistryPairs ==
    { [scheme |-> TRANSFER, network |-> n] : n \in transferSchemes }
    \cup { [scheme |-> SPL, network |-> n] : n \in splSchemes }

\* known schemes x known networks
KnownPairs ==
    { [scheme |-> s, network |-> n] :
        s \in {"solana-transfer", "solana-spl"},
        n \in {"solana-mainnet", "solana-devnet"} }

\* C19: /supported returns exactly the Cartesian product of the known schemes
\* and networks, each pair once; that set is the set of pairs with an engine
\* in the registry, which is what construction left there in every state, so
\* that no invocation adds, removes or replaces an engine.
C19_SupportedIsRegistry ==
    /\ RegistryPairs = KnownPairs
    /\ Invoked("getSupportedSchemes") =>
          /\ {call.kinds[k] : k \in DOMAIN call.kinds} = RegistryPairs
          /\ Len(call.kinds) = Cardinality(KnownPairs)

\* /supported has answered with four kinds
C19_Witness ==
    /\ Invoked("getSupportedSchemes")
    /\ Len(call.kinds) = 4
    /\ [scheme |-> "solana-spl", network |-> "solana-mainnet"]
          \in {call.kinds[k] : k \in DOMAIN call.kinds}

\* C20: for an SPL request that reaches the engine, the decimals are 6 with
\* no chain call for the two USDC mints; for any other mint one getMintInfo
\* lookup is made and its answer used, or 9 if it failed; and the amount is
\* compared with the requirement converted under the decimals so resolved.
C20_DecimalsResolution ==
    (/\ Invoked("Facilitator.verifyPayment")
     /\ call.outcome.engine
     /\ ArgRequirement.scheme = SPL)
    => /\ ArgRequirement.asset \in {USDC_MINT_MAINNET, USDC_MINT_DEVNET}
             => (call.outcome.decimals = 6 /\ call.outcome.lookups = 0)
       /\ ArgRequirement.asset \notin {USDC_MINT_MAINNET, USDC_MINT_DEVNET}
             => /\ call.outcome.lookups = 1
                /\ call.lookupOk => call.outcome.decimals = OtherMintDecimals
                /\ ~call.lookupOk => call.outcome.decimals = 9
       /\ (/\ ~SignatureTooShort /\ AddressesValid /\ OwnersOnCurve
           /\ ArgPayload.payload.mint = ArgRequirement.asset
           /\ ArgPayload.payload.fromTokenAccount
                 = getAssociatedTokenAddress(ArgPayload.payload.mint, ArgPayload.payload.from)
           /\ ArgPayload.payload.toTokenAccount
                 = getAssociatedTokenAddress(ArgPayload.payload.mint, ArgRequirement.payTo)
           /\ ArgPayload.payload.amount.isInteger)
          => (Reason = "Insufficient payment amount"
                <=> Underpaid(call.outcome.decimals))

\* a payment of an unlisted mint, sufficient under the mint's own decimals
\* and found valid after a successful lookup
C20_Witness ==
    /\ Invoked("Facilitator.verifyPayment")
    /\ call.outcome.engine
    /\ ArgRequirement.asset = OtherMint
    /\ call.lookupOk /\ call.outcome.lookups = 1
    /\ call.outcome.decimals = OtherMintDecimals
    /\ ~Underpaid(OtherMintDecimals) /\ Underpaid(9)
    /\ Verdict.isValid

\* A decimals lookup for (mint, network) has succeeded in some request.
LookedUp(mint, network) ==
    \E q \in Reqs :
        /\ rq[q].pc # "idle"
        /\ RequirementOf(q).asset = mint /\ RequirementOf(q).network = network
        /\ Has(q, "getParsedAccountInfo")
        /\ rq[q].dec = OtherMintDecimals \/ rq[q].sdec = OtherMintDecimals

\* getTokenDecimals of request r returns in this step.
DecimalsResolvedNow(r) ==
    rq[r].pc \in {"decimals", "sdecimals"} /\ rq'[r].pc # rq[r].pc

\* C21: after one successful decimals lookup for a (mint, network), every
\* later resolution of the decimals of the same (mint, network) makes no
\* getMintInfo call and obtains the value looked up.
C21_CachedAfterLookup ==
    [][\A r \in Reqs :
          (DecimalsResolvedNow(r)
              /\ LookedUp(RequirementOf(r).asset, RequirementOf(r).network))
          => /\ rq'[r].calls = rq[r].calls
             /\ rq[r].pc = "decimals" => rq'[r].dec = OtherMintDecimals
             /\ rq[r].pc = "sdecimals" => rq'[r].sdec = OtherMintDecimals]_vars

\* ------------------------------------------------ observations of validation
\* The codes of the data model's invariants that requirement violates:
\* scheme and network in their enums, payTo a public key, an asset given,
\* scheme and asset in agreement (solana-transfer exactly with "SOL",
\* solana-spl with a mint that is a public key), maxAmountRequired a positive
\* finite decimal.
Violations(requirement) ==
    LET amount == requirement.maxAmountRequired IN
    (IF requirement.scheme \in {"solana-transfer", "solana-spl"}
     THEN {} ELSE {"INVALID_SCHEME"})
    \cup (IF requirement.network \in {"solana-mainnet", "solana-devnet", "solana-testnet"}
          THEN {} ELSE {"INVALID_NETWORK"})
    \cup (IF requirement.payTo \in ValidAddresses THEN {} ELSE {"INVALID_PAY_TO"})
    \cup (IF requirement.asset # Null THEN {} ELSE {"MISSING_ASSET"})
    \cup (IF \/ requirement.asset = Null
             \/ requirement.scheme = "solana-transfer" /\ requirement.asset = "SOL"
             \/ requirement.scheme = "solana-spl" /\ requirement.asset \in ValidAddresses
             \/ requirement.scheme \notin {"solana-transfer", "solana-spl"}
          THEN {} ELSE {"INVALID_ASSET_SCHEME"})
    \cup (IF amount.kind = "decimal" /\ amount.mant > 0 THEN {} ELSE {"INVALID_AMOUNT"})

\* C22: validatePaymentRequirement succeeds for every requirement that
\* satisfies the invariants of the data model, and for a requirement that
\* violates exactly one of them it fails with the code of that invariant.
C22_ValidatorEnforcesInvariants ==
    Invoked("validatePaymentRequirement") =>
        /\ Violations(call.requirement) = {} => call.result.ok
        /\ \A code \in Violations(call.requirement) :
              Violations(call.requirement) = {code} => call.result = Throws(code)

\* C23: a requirement with scheme solana-spl and asset "SOL" (and nothing
\* else wrong with it) is rejected by the validator with
\* INVALID_ASSET_SCHEME, and a request carrying such a requirement never gets
\* as far as a scheme engine and is never found valid.
C23_SplSolRejectedBeforeEngine ==
    /\ (/\ Invoked("validatePaymentRequirement")
        /\ call.requirement.scheme = "solana-spl" /\ call.requirement.asset = "SOL"
        /\ Violations(call.requirement) = {"INVALID_ASSET_SCHEME"})
       => call.result = Throws("INVALID_ASSET_SCHEME")
    /\ (/\ Invoked("Facilitator.verifyPayment")
        /\ ArgRequirement.scheme = "solana-spl" /\ ArgRequirement.asset = "SOL")
       => /\ ~call.outcome.engine
          /\ ~Verdict.isValid

\* A syntactically well-formed payload: version, scheme and network, and a
\* transfer or SPL payload whose amount is a string and whose timestamp is an
\* integer.
WellFormed(pp) ==
    /\ pp.x402Version \in Nat
    /\ pp.scheme # Null /\ pp.network # Null
    /\ pp.payload.amount \notin {BigIntAmount, NaNAmount, NullAmount}
    /\ pp.payload.timestamp \in Int

IsPayloadHeader(header) ==
    header.isJson /\ header.json \notin {EmptyObject, NullValue}

\* C25: for every header that is not the base64 of a JSON payment payload,
\* decodePaymentPayload fails with INVALID_PAYLOAD and returns no payload; at
\* the facilitator a header that does not decode gives isValid=false in the
\* response, with no engine run and no chain call.
C25_DecodeFailsOnNonPayload ==
    /\ (Invoked("decodePaymentPayload") /\ ~IsPayloadHeader(call.header))
       => /\ call.result.threw
          /\ call.result.value = [error |-> "INVALID_PAYLOAD"]
    /\ (/\ Invoked("Facilitator.verifyPayment")
        /\ call.body.x402Version = 1
        /\ ~call.body.paymentHeader.isJson)
       => /\ ~Verdict.isValid
          /\ NothingInvoked

\* The SPL engine's verifyPayment ran on a solana-spl payload: invoked
\* directly, or by the facilitator.
SPLVerificationRan ==
    \/ Invoked("SPL.verifyPayment") /\ ArgPayload.scheme = SPL
    \/ /\ Invoked("Facilitator.verifyPayment")
       /\ call.outcome.engine
       /\ ArgPayload.scheme = SPL

MintMatches == ArgPayload.payload.mint = ArgRequirement.asset
FromAccountDerived ==
    ArgPayload.payload.fromTokenAccount
        = getAssociatedTokenAddress(ArgPayload.payload.mint, ArgPayload.payload.from)
ToAccountDerived ==
    ArgPayload.payload.toTokenAccount
        = getAssociatedTokenAddress(ArgPayload.payload.mint, ArgRequirement.payTo)

\* The checks of the SPL engine that come before the token accounts pass:
\* signature length, mint, and keys from which the accounts can be derived.
AccountChecksReached ==
    /\ ~SignatureTooShort
    /\ MintMatches
    /\ AddressesValid /\ OwnersOnCurve
    /\ ArgPayload.payload.mint \in ValidAddresses

\* C26: SPL verification accepts a payload only if payload.mint is the
\* requirement's asset and both token accounts are the associated token
\* accounts derived from the mint and from, resp. payTo; once the signature
\* has the length required, a wrong mint is answered 'Mint mismatch', and with
\* the mint right and the keys valid a wrong fromTokenAccount is answered
\* 'Invalid from token account' and a wrong toTokenAccount 'Invalid to token
\* account', whatever the amount and the timestamp are.
C26_SplAccountsChecked ==
    SPLVerificationRan =>
        /\ Verdict.isValid => (MintMatches /\ FromAccountDerived /\ ToAccountDerived)
        /\ (~SignatureTooShort /\ ~MintMatches) => Reason = "Mint mismatch"
        /\ (AccountChecksReached /\ ~FromAccountDerived)
              => Reason = "Invalid from token account"
        /\ (AccountChecksReached /\ FromAccountDerived /\ ~ToAccountDerived)
              => Reason = "Invalid to token account"

\* a payload with a wrong toTokenAccount, too small an amount and an old
\* timestamp was answered 'Invalid to token account'
C26_Witness ==
    /\ Invoked("SPL.verifyPayment") /\ ArgPayload.scheme = SPL
    /\ AccountChecksReached /\ FromAccountDerived /\ ~ToAccountDerived
    /\ Underpaid(call.outcome.decimals)
    /\ Age > 300000
    /\ Reason = "Invalid to token account"

\* C27: for scheme solana-transfer the verification result does not depend on
\* mint, fromTokenAccount and toTokenAccount: a payload without them and the
\* same payload with them get the same {isValid, invalidReason}, from the
\* engine and from the facilitator.
C27_TransferIgnoresTokenFields ==
    Invoked("verifyPayment twice") =>
        /\ call.engine = call.engineOther
        /\ call.facilitator.result = call.facilitatorOther.result

\* a valid transfer payload stays valid with a mint and token accounts in it
C27_Witness ==
    /\ Invoked("verifyPayment twice")
    /\ call.body.paymentHeader.json.payload.mint = Null
    /\ call.other.paymentHeader.json.payload.mint = OtherMint
    /\ call.engine.isValid /\ call.engineOther.isValid
    /\ call.facilitator.result.isValid /\ call.facilitatorOther.result.isValid

\* ------------------------------------------------------------------- C28
\* sendRawTransaction took the request's transaction: the request awaits its
\* confirmation
Submitted(r) == rq[r].pc = "confirm"

\* the instructions of a submitted transaction that move funds
TransfersOf(tx) ==
    {i \in 1..Len(tx.instructions) : tx.instructions[i].instruction = "transfer"}

C29_CreateIffAccountAbsent ==
    \A r \in 1..MaxReq :
        (Submitted(r) /\ PayloadOf(r).scheme = SPL) =>
            LET tx == rq[r].tx
                payload == PayloadOf(r).payload
                creates == {i \in 1..Len(tx.instructions) :
                               tx.instructions[i].instruction = "create"}
            IN  /\ (creates # {}) <=> (rq[r].ata = "absent")
                /\ \A i \in creates :
                      /\ tx.instructions[i].payer = payload.from
                      /\ tx.instructions[i].owner = RequirementOf(r).payTo
                      /\ tx.instructions[i].mint = payload.mint
                      /\ \A j \in TransfersOf(tx) : i < j

\* ------------------------------------------------------------------- C30
\* one of x402Version, paymentHeader, paymentRequirements is not in the body
FieldMissing(body) ==
    \/ body.x402Version = Omitted
    \/ body.paymentHeader = Omitted
    \/ body.paymentRequirements = Omitted

HasRoute(request) ==
    request.method = "POST" /\ request.path \in {"/verify", "/settle"}

\* C30: /verify and /settle answer 400 exactly when a required field is
\* missing and 200 to every other request, 500 only when an internal error
\* escaped the service (none does here), and a request no route matches is
\* answered 404.
C30_HttpStatus ==
    call.op = "http response" =>
        LET request == call.request
            status == call.response.status
        IN  /\ status # 500
            /\ ~HasRoute(request) => status = 404
            /\ (HasRoute(request) /\ request.body.parses) =>
                   /\ status = 400 <=> FieldMissing(request.body)
                   /\ status # 400 => status = 200

\* ------------------------------------------------------------------- C31
\* the arguments carry one of the errors: a payload.from that is no key, an
\* amount that is no integer, a payTo that is no key
MalformedArgs ==
    \/ ArgPayload.payload.from = BadAddress
    \/ ~ArgPayload.payload.amount.isInteger
    \/ ArgRequirement.payTo = BadAddress

\* the engine's settlePayment ran past its own verification
EngineSettled ==
    /\ call.outcome.reverification # NoVerdict
    /\ call.outcome.reverification.isValid

\* a call of the node that settlePayment made threw
ProbeThrew == EngineSettled /\ call.rpc.getTransaction = "throws"
SubmissionThrew ==
    /\ EngineSettled
    /\ call.rpc.getTransaction # "found"
    /\ \/ call.rpc.getLatestBlockhash = "throws"
       \/ call.rpc.sendRawTransaction = "throws"
       \/ call.rpc.confirmTransaction = "throws"

ExchangesWith(path) ==
    {k \in 1..Len(call.exchanges) : call.exchanges[k].path = path}

\* the facilitator answered /settle with success=false
SettleRefused ==
    /\ call.pc = "done"
    /\ \E k \in ExchangesWith("/settle") : ~call.exchanges[k].data.success

\* C32: a success=false from /settle is answered 402 with the accepts list
\* the endpoint advertises and the facilitator's error string as error.
C32_SettleFailureMapsTo402 ==
    (call.op = "requirePayment" /\ SettleRefused) =>
        /\ call.response.status = 402
        /\ call.response.body.accepts = Advertised(call.endpoint)
        /\ \A k \in ExchangesWith("/settle") :
              call.response.body.error = call.exchanges[k].data.error

\* ------------------------------------------------------------------- C33
\* C33: the protected handler runs, with the payment response set, only
\* after /verify answered isValid=true and then /settle answered
\* success=true for the request's header; a request without X-Payment header
\* gets 402 without any call of the facilitator; /settle is only called
\* after a positive /verify.
C33_HandlerOnlyAfterVerifyThenSettle ==
    call.op = "requirePayment" =>
        /\ call.nextCalled =>
              /\ call.paymentResponse # NoPaymentResponse
              /\ Len(call.exchanges) = 2
              /\ call.exchanges[1].path = "/verify"
              /\ call.exchanges[1].data.isValid
              /\ call.exchanges[2].path = "/settle"
              /\ call.exchanges[2].data.success
              /\ \A k \in 1..2 : call.exchanges[k].body.paymentHeader = call.header
        /\ (call.header = NoPaymentHeader /\ call.pc = "done") =>
              /\ call.response.status = 402
              /\ call.exchanges = <<>>
        /\ call.header = NoPaymentHeader => call.exchanges = <<>>
        /\ \A k \in ExchangesWith("/settle") :
              /\ k > 1
              /\ call.exchanges[k - 1].path = "/verify"
              /\ call.exchanges[k - 1].data.isValid
        /\ call.paymentResponse # NoPaymentResponse => call.nextCalled

\* The handler ran for a USDC payment the facilitator settled.
C33_Witness ==
    /\ call.op = "requirePayment"
    /\ call.nextCalled
    /\ call.requirement.scheme = SPL
    /\ call.response.status = 200

\* ------------------------------------------------------------------- C34
\* the engine's probe found no transaction: getTransaction threw or
\* returned null
ProbeFoundNothing ==
    /\ call.op = "Facilitator.settlePayment"
    /\ EngineSettled
    /\ call.rpc.getTransaction \in {"throws", "null"}

MadeCall(name) ==
    \E k \in 1..Len(call.outcome.calls) : call.outcome.calls[k] = name

\* C34: when getTransaction throws or returns no record, settle goes on to
\* rebuild and submit the transaction; it answers success=false only when
\* the submission itself threw, and success=true with the signature of the
\* submitted transaction otherwise, whichever of the two the probe did.
C34_ProbeFailureSwallowed ==
    ProbeFoundNothing =>
        /\ MadeCall("getLatestBlockhash")
        /\ call.rpc.getLatestBlockhash = "ok" => MadeCall("sendRawTransaction")
        /\ call.outcome.result.success <=> ~SubmissionThrew
        /\ call.outcome.result.success => call.outcome.result.txHash = SigR

\* The probe threw and the payment was settled by the submission.
C34_Witness ==
    /\ ProbeFoundNothing
    /\ call.rpc.getTransaction = "throws"
    /\ MadeCall("confirmTransaction")
    /\ call.outcome.result.success

\* ------------------------------------------------------------------- C35
HasField(record, field) == field \in DOMAIN record

\* C35: the status reported has confirmed=true exactly when the network has
\* an engine, the signature status has no err and its confirmationStatus is
\* 'confirmed' or 'finalized'; a status with err gives confirmed=false with
\* error 'Transaction failed'; an unknown signature gives confirmed=false,
\* confirmations 0 and no error; a network without engine or a failure of
\* the node gives confirmed=false with an error.
C35_TransactionStatus ==
    call.op = "Facilitator.getTransactionStatus" =>
        LET result == call.result
            value == call.status.value
            engine == call.network \in SOLANA_NETWORKS
            answered == engine /\ ~call.status.threw
        IN  /\ result.confirmed <=>
                   /\ answered /\ ~value.isNull /\ ~value.err
                   /\ value.confirmationStatus \in {"confirmed", "finalized"}
            /\ (answered /\ ~value.isNull /\ value.err) =>
                   /\ ~result.confirmed
                   /\ HasField(result, "error") /\ result.error = "Transaction failed"
            /\ (answered /\ value.isNull) =>
                   /\ ~result.confirmed
                   /\ HasField(result, "confirmations") /\ result.confirmations = 0
                   /\ ~HasField(result, "error")
            /\ ~answered =>
                   /\ ~result.confirmed
                   /\ HasField(result, "error")

\* A finalized transaction without err on a network with an engine is
\* reported confirmed.
C35_Witness ==
    /\ call.op = "Facilitator.getTransactionStatus"
    /\ call.network = "solana-mainnet"
    /\ call.status.value = StatusValue(FALSE, "finalized", NullConfirmations)
    /\ call.result.confirmed

\* ------------------------------------------------------------------- C36
\* C36: every /settle response is well formed: success=true comes with a
\* txHash, no error and the requirement's network as networkId;
\* success=false comes with an error; a request rejected before an engine's
\* settlePayment was invoked has neither txHash nor networkId.
C36_SettleResponseWellFormed ==
    \A r \in Reqs :
        (Done(r) /\ IsSettle(r)) =>
            LET resp == rq[r].resp IN
            /\ resp.success =>
                  /\ resp.txHash # NoSig
                  /\ resp.error = Null
                  /\ resp.networkId = RequirementOf(r).network
            /\ ~resp.success => resp.error # Null
            /\ rq[r].eres = NoVerdict =>
                  /\ ~resp.success
                  /\ resp.txHash = NoSig
                  /\ resp.networkId = Null

\* One /settle was answered success=true and another was rejected by the
\* facilitator's verification.
C36_Witness ==
    \E r, q \in Reqs :
        /\ Done(r) /\ IsSettle(r) /\ rq[r].resp.success
        /\ Done(q) /\ IsSettle(q) /\ rq[q].eres = NoVerdict

\* ------------------------------------------------------------------- C37
\* C37: within one /settle of an SPL payment the decimals the facilitator's
\* verification used and the decimals handed to the engine's settlePayment
\* are the same value, whichever of the two lookups succeed or fail.
C37_SameDecimalsInVerifyAndSettle ==
    \A r \in Reqs :
        (IsSettle(r) /\ rq[r].sdec # 0) => rq[r].sdec = rq[r].dec

\* ------------------------------------------------------------------- C38
\* the step handles a request (time stands still while it does)
HandlesRequest == call' # call /\ call.op = "rateLimit"

\* C38: no record's count exceeds maxRequests; a request that finds
\* count = maxRequests is answered 429, leaves the count as it was and does
\* not call next(); and a request leaves the records of the other clients as
\* they were, or removes them once they are older than resetTime + windowMs.
C38_NeverMoreThanMaxRequests ==
    /\ [](call.op = "rateLimit" =>
            /\ \A k \in Clients : call.requests[k].count <= call.maxRequests
            /\ (call.last.client # Null
                /\ call.last.found.count = call.maxRequests) =>
                   /\ call.last.status = 429
                   /\ call.last.left.count = call.last.found.count
                   /\ ~call.last.nextCalled
            /\ call.last.status = 429 => call.last.found.count = call.maxRequests)
    /\ [][HandlesRequest =>
            \A k \in Clients \ {call'.last.client} :
                \/ call'.requests[k] = call.requests[k]
                \/ /\ call'.requests[k] = NoRecord
                   /\ call.requests[k].resetTime < now - call.windowMs]_vars

\* A client at its limit was answered 429 while the other client has a
\* record with requests counted.
C38_Witness ==
    /\ call.op = "rateLimit"
    /\ call.maxRequests = 2
    /\ call.last.status = 429
    /\ \E k \in Clients \ {call.last.client} : call.requests[k].count > 0

\* ------------------------------------------------------------------- C39
\* C39: a limited client is not refused at a time later than the resetTime
\* of its record (the time the 429 advertises): its first request after
\* resetTime is admitted with a fresh counter.
C39_AdmittedAfterResetTime ==
    (call.op = "rateLimit" /\ call.last.client # Null
     /\ call.last.found.count >= call.maxRequests
     /\ call.last.time > call.last.found.resetTime) =>
        /\ call.last.status # 429
        /\ call.last.left.count = 1

====
